---- MODULE Spec2Model ----
(***************************************************************************)
(* SentinelMarket risk engine: VolumeSpikeDetector, PriceAnomalyDetector   *)
(* and RiskScorer (src/SentinelMarket/src/detectors), as a state machine   *)
(* whose actions are the public calls and whose state is the scorer        *)
(* object, the arguments of the last call, its local variables and its     *)
(* return value.                                                           *)
(*                                                                         *)
(* Numbers.  Prices and volumes are integers.  The code computes in        *)
(* binary floating point; the model computes the same expressions exactly, *)
(* in integers and ratios of integers, and compares ratios by cross        *)
(* multiplication.  Weights are kept in hundredths (0.30 is 30), effective *)
(* weights in thousandths, the ML risk score in tenths of a point and the  *)
(* anomaly score of the ensemble in hundredths.  Daily percent returns are *)
(* whole numbers for every series the model draws (see WholePercent).      *)
(***************************************************************************)
EXTENDS Integers, Sequences, FiniteSets, TLC

VARIABLES
    scorer,         \* the RiskScorer object
    op,             \* the call just made, "idle" between calls
    args,           \* its arguments other than the series, and what its
                    \* collaborators (files, modules, the fitted model) do
    stock_data,     \* its stock_data argument
    previous_data,  \* its previous_data argument
    frame,          \* the local variables of calculate_risk_score
    outcome,        \* "returned" or "raised"
    result,         \* the returned value
    detectors,      \* the IsolationForestDetector objects, by name
    files,          \* the model files on disk, by path
    fitted,         \* what the model attached to the scorer answers, by kind
                    \* of series
    earlier         \* the first scoring call of the scorer and what it returned

vars == <<scorer, op, args, stock_data, previous_data, frame, outcome, result,
          detectors, files, fitted, earlier>>

----------------------------------------------------------------------------
(* Bounds of the model *)

\* longest series drawn (rows)
MaxLen == 41

----------------------------------------------------------------------------
(* Exact arithmetic helpers *)

Abs(x) == IF x < 0 THEN -x ELSE x

Min(a, b) == IF a <= b THEN a ELSE b

Max(a, b) == IF a >= b THEN a ELSE b

RECURSIVE SumOver(_, _, _)
\* f[lo] + ... + f[hi]
SumOver(f, lo, hi) == IF lo > hi THEN 0 ELSE f[hi] + SumOver(f, lo, hi - 1)

RECURSIVE FracLeq(_, _, _, _)
\* a/b <= c/d for a, c >= 0 and b, d > 0, by the Euclidean expansion of the
\* two fractions, so that no product is formed
FracLeq(a, b, c, d) ==
    LET qa == a \div b
        qc == c \div d
        ra == a % b
        rc == c % d
    IN  IF qa # qc THEN qa < qc
        ELSE IF ra = 0 THEN TRUE
        ELSE IF rc = 0 THEN FALSE
        ELSE FracLeq(d, rc, b, ra)

\* a*b <= c*d for non-negative integers, without forming the products
ProdLeq(a, b, c, d) ==
    IF a = 0 \/ b = 0 THEN TRUE
    ELSE IF c = 0 \/ d = 0 THEN FALSE
    ELSE FracLeq(a, c, d, b)

----------------------------------------------------------------------------
(* Values shared by the detectors *)

\* an empty dict
EmptyDict == [k \in {} |-> 0]

Column(data, name) == [i \in 1..Len(data) |-> data[i][name]]

----------------------------------------------------------------------------
(* VolumeSpikeDetector *)

\* volume_ratio >= t/10, volume_ratio = num/den
\* num/den above t10 tenths
RatioGt(num, den, t10) == 10 * num > t10 * den

RatioGe(num, den, t10) == 10 * num >= t10 * den

\* the step function without its top step
Volume_calculate_risk_score_capped(num, den) ==
    IF RatioGe(num, den, 50) THEN 90
    ELSE IF RatioGe(num, den, 40) THEN 80
    ELSE IF RatioGe(num, den, 30) THEN 70
    ELSE IF RatioGe(num, den, 25) THEN 60
    ELSE IF RatioGe(num, den, 20) THEN 50
    ELSE IF RatioGe(num, den, 15) THEN 30
    ELSE 0

\* VolumeSpikeDetector._calculate_risk_score, on volume_ratio = num/den
Volume_calculate_risk_score(num, den) ==
    IF RatioGe(num, den, 100) THEN 100
    ELSE IF RatioGe(num, den, 50) THEN 90
    ELSE IF RatioGe(num, den, 40) THEN 80
    ELSE IF RatioGe(num, den, 30) THEN 70
    ELSE IF RatioGe(num, den, 25) THEN 60
    ELSE IF RatioGe(num, den, 20) THEN 50
    ELSE IF RatioGe(num, den, 15) THEN 30
    ELSE 0

Volume_generate_message(risk_score) ==
    IF risk_score >= 80 THEN "EXTREME VOLUME SPIKE"
    ELSE IF risk_score >= 60 THEN "HIGH VOLUME SPIKE"
    ELSE IF risk_score >= 40 THEN "MODERATE VOLUME SPIKE"
    ELSE IF risk_score >= 20 THEN "SLIGHT VOLUME INCREASE"
    ELSE "NORMAL VOLUME"

\* a detect that averages the rows there are when the series is shorter than
\* the window (a rolling mean with min_periods = 1 and no length check)
VolumeSpikeDetector_detect_partial(data, window_days, spike_threshold) ==
    LET n == Len(data)
        volume == Column(data, "Volume")
        lo == Max(1, n - window_days + 1)
        total == SumOver(volume, lo, n)
    IN  IF n = 0 \/ total = 0
        THEN [is_suspicious |-> FALSE, risk_score |-> 0,
              message |-> "Invalid volume data", details |-> EmptyDict]
        ELSE
          LET num == volume[n] * (n - lo + 1)
              risk_score == Volume_calculate_risk_score(num, total)
          IN  [is_suspicious |-> RatioGe(num, total, spike_threshold),
               risk_score |-> risk_score,
               message |-> Volume_generate_message(risk_score),
               details |-> [current_volume |-> volume[n],
                            volume_ratio |-> <<num, total>>,
                            threshold_used |-> spike_threshold]]

\* VolumeSpikeDetector.detect; spike_threshold in tenths
VolumeSpikeDetector_detect(data, window_days, spike_threshold) ==
    LET n == Len(data)
        volume == Column(data, "Volume")
    IN  IF n < window_days
        THEN [is_suspicious |-> FALSE, risk_score |-> 0,
              message |-> "Insufficient data", details |-> EmptyDict]
        ELSE
          LET total == SumOver(volume, n - window_days + 1, n)
              current_volume == volume[n]
              \* volume_ratio = current_volume / (total / window_days)
              num == current_volume * window_days
              den == total
          IN  IF total = 0
              THEN [is_suspicious |-> FALSE, risk_score |-> 0,
                    message |-> "Invalid volume data", details |-> EmptyDict]
              ELSE
                LET risk_score == Volume_calculate_risk_score(num, den)
                IN  [is_suspicious |-> RatioGe(num, den, spike_threshold),
                     risk_score |-> risk_score,
                     message |-> Volume_generate_message(risk_score),
                     details |-> [current_volume |-> current_volume,
                                  volume_ratio |-> <<num, den>>,
                                  threshold_used |-> spike_threshold]]


\* VolumeSpikeDetector._calculate_recent_change > 100, i.e. the current last
\* volume is more than double the previous reading's last volume
RecentChangeOver100(current_data, previous_rows) ==
    LET current_volume == current_data[Len(current_data)].Volume
        previous_volume == previous_rows[Len(previous_rows)].Volume
    IN  IF previous_volume = 0 THEN FALSE
        ELSE (current_volume - previous_volume) * 100 > 100 * previous_volume

\* VolumeSpikeDetector.detect_realtime; previous = [is_none, rows].  The
\* value is [raised, value]: .iloc[-1] of an empty frame raises IndexError.
VolumeSpikeDetector_detect_realtime(data, previous, window_days, spike_threshold) ==
    LET r == VolumeSpikeDetector_detect(data, window_days, spike_threshold)
    IN  IF ~previous.is_none /\ Len(previous.rows) > 0
        THEN IF Len(data) = 0
             THEN [raised |-> TRUE, value |-> r]
             ELSE LET d == ("recent_volume_change_percent" :> "set") @@ r.details
                  IN  IF RecentChangeOver100(data, previous.rows)
                      THEN [raised |-> FALSE,
                            value |-> [r EXCEPT !.details = d,
                                                !.risk_score = Min(r.risk_score + 20, 100),
                                                !.is_suspicious = TRUE]]
                      ELSE [raised |-> FALSE, value |-> [r EXCEPT !.details = d]]
        ELSE [raised |-> FALSE, value |-> r]

----------------------------------------------------------------------------
(* PriceAnomalyDetector *)

\* Close.pct_change() * 100 at row i >= 2
PctReturn(close, i) == (100 * (close[i] - close[i - 1])) \div close[i - 1]

\* the percent returns of the series are whole numbers, so PctReturn is exact
WholePercent(data) ==
    \A i \in 2..Len(data) :
        /\ data[i - 1].Close > 0
        /\ (100 * (data[i].Close - data[i - 1].Close)) % data[i - 1].Close = 0

\* n*sum(x^2) - sum(x)^2 over f[lo..hi]: n(n-1) times the sample variance
ScaledVariance(f, lo, hi) ==
    LET n == hi - lo + 1
        s1 == SumOver(f, lo, hi)
        s2 == SumOver([i \in lo..hi |-> f[i] * f[i]], lo, hi)
    IN  n * s2 - s1 * s1

\* |z_score| >= t/10 where z = (r - mean)/std over a window of w returns:
\* dev = w*r - sum and sv = w*sum(r^2) - sum^2 give
\* z^2 = dev^2 (w-1) / (w sv)
AbsZGe(dev, sv, w, t10) ==
    ProdLeq(t10 * t10 * w, sv, 100 * (w - 1) * Abs(dev), Abs(dev))

Price_calculate_risk_score(dev, sv, w, current_return) ==
    LET abs_return == Abs(current_return)
        base_score == IF AbsZGe(dev, sv, w, 40) THEN 100
                      ELSE IF AbsZGe(dev, sv, w, 30) THEN 85
                      ELSE IF AbsZGe(dev, sv, w, 25) THEN 70
                      ELSE IF AbsZGe(dev, sv, w, 20) THEN 55
                      ELSE IF AbsZGe(dev, sv, w, 15) THEN 35
                      ELSE 0
    IN  IF abs_return >= 20 THEN Min(base_score + 20, 100)
        ELSE IF abs_return >= 15 THEN Min(base_score + 15, 100)
        ELSE IF abs_return >= 10 THEN Min(base_score + 10, 100)
        ELSE base_score

Price_generate_message(risk_score) ==
    IF risk_score >= 80 THEN "EXTREME PRICE ANOMALY"
    ELSE IF risk_score >= 60 THEN "HIGH PRICE ANOMALY"
    ELSE IF risk_score >= 40 THEN "MODERATE PRICE ANOMALY"
    ELSE "NORMAL PRICE MOVEMENT"

\* PriceAnomalyDetector.detect; z_score_threshold in tenths.  The first
\* return of a series is NaN, so the rolling std over window_days returns is
\* NaN unless the series has more than window_days rows; a window of one
\* return has no sample std either.
PriceAnomalyDetector_detect(data, window_days, z_score_threshold) ==
    LET n == Len(data)
        close == Column(data, "Close")
    IN  IF n < window_days
        THEN [is_suspicious |-> FALSE, risk_score |-> 0,
              message |-> "Insufficient data", details |-> EmptyDict]
        ELSE IF n < 2 \/ n <= window_days \/ window_days < 2
        THEN [is_suspicious |-> FALSE, risk_score |-> 0,
              message |-> "Invalid price data", details |-> EmptyDict]
        ELSE
          LET lo == n - window_days + 1
              returns == [i \in lo..n |-> PctReturn(close, i)]
              current_return == returns[n]
              sv == ScaledVariance(returns, lo, n)
              dev == window_days * current_return - SumOver(returns, lo, n)
          IN  IF sv = 0
              THEN [is_suspicious |-> FALSE, risk_score |-> 0,
                    message |-> "Invalid price data", details |-> EmptyDict]
              ELSE
                LET risk_score == Price_calculate_risk_score(dev, sv, window_days,
                                                             current_return)
                IN  [is_suspicious |-> AbsZGe(dev, sv, window_days, z_score_threshold),
                     risk_score |-> risk_score,
                     message |-> Price_generate_message(risk_score),
                     details |-> [z_score |-> <<dev, sv>>,
                                  current_return_percent |-> current_return,
                                  price_change_percent |-> current_return,
                                  current_price |-> close[n],
                                  threshold_used |-> z_score_threshold]]

\* int(deviation_percent * 5) >= m for a close above the upper band:
\* upper = s1/n + 2 std <= 500 c / (500 + m)
OvershootGe(c, s1, sv, n, m) ==
    LET t == 500 * c * n - (500 + m) * s1
    IN  t >= 0 /\ ProdLeq(4 * sv * (500 + m), n * (500 + m), (n - 1) * t, t)

\* int(deviation_percent * 5) >= m for a close below the lower band:
\* lower = s1/n - 2 std >= 500 c / (500 - m)
UndershootGe(c, s1, sv, n, m) ==
    LET t == (500 - m) * s1 - 500 * c * n
    IN  t >= 0 /\ ProdLeq(4 * sv * (500 - m), n * (500 - m), (n - 1) * t, t)

\* PriceAnomalyDetector._check_bollinger_bands (window = 20)
check_bollinger_bands(data) ==
    LET n == Len(data)
        window == 20
        close == Column(data, "Close")
    IN  IF n < window
        THEN [risk_score |-> 0, details |-> [status |-> "insufficient_data"]]
        ELSE
          LET lo == n - window + 1
              s1 == SumOver(close, lo, n)
              sv == ScaledVariance(close, lo, n)
              current_price == close[n]
              d == window * current_price - s1
              \* |current_price - mean| > 2 std
              outside == (window - 1) * d * d > 4 * window * sv
          IN  IF d > 0 /\ outside
              THEN LET k == Cardinality({m \in 1..30 :
                                  OvershootGe(current_price, s1, sv, window, m)})
                   IN  [risk_score |-> Min(70 + k, 100),
                        details |-> [status |-> "overbought",
                                     current_price |-> current_price]]
              ELSE IF d < 0 /\ outside
              THEN LET k == Cardinality({m \in 1..30 :
                                  UndershootGe(current_price, s1, sv, window, m)})
                   IN  [risk_score |-> Min(70 + k, 100),
                        details |-> [status |-> "oversold",
                                     current_price |-> current_price]]
              ELSE [risk_score |-> 0,
                    details |-> [status |-> "normal",
                                 current_price |-> current_price]]

\* _check_rsi without the pd.isna test, an undefined RSI read as 100
check_rsi_unchecked(data) ==
    LET n == Len(data)
        window == 14
        close == Column(data, "Close")
    IN  IF n < window + 1
        THEN [risk_score |-> 0, details |-> [rsi |-> <<>>, status |-> "insufficient_data"]]
        ELSE
          LET lo == n - window + 1
              delta == [i \in lo..n |-> close[i] - close[i - 1]]
              gains == SumOver([i \in lo..n |-> IF delta[i] > 0 THEN delta[i] ELSE 0], lo, n)
              losses == SumOver([i \in lo..n |-> IF delta[i] < 0 THEN -delta[i] ELSE 0], lo, n)
          IN  IF 100 * gains >= 80 * (gains + losses)
              THEN [risk_score |-> 90,
                    details |-> [rsi |-> <<gains, losses>>, status |-> "extremely_overbought"]]
              ELSE IF 100 * gains >= 70 * (gains + losses)
              THEN [risk_score |-> 70,
                    details |-> [rsi |-> <<gains, losses>>, status |-> "overbought"]]
              ELSE IF 100 * gains <= 20 * (gains + losses)
              THEN [risk_score |-> 90,
                    details |-> [rsi |-> <<gains, losses>>, status |-> "extremely_oversold"]]
              ELSE IF 100 * gains <= 30 * (gains + losses)
              THEN [risk_score |-> 70,
                    details |-> [rsi |-> <<gains, losses>>, status |-> "oversold"]]
              ELSE [risk_score |-> 0,
                    details |-> [rsi |-> <<gains, losses>>, status |-> "neutral"]]

\* PriceAnomalyDetector._check_rsi (window = 14).  rsi = 100 - 100/(1 + rs)
\* with rs = avg_gains/avg_losses: NaN when both are 0, 100 when only the
\* losses are 0, and 100 gains/(gains + losses) otherwise.
check_rsi(data) ==
    LET n == Len(data)
        window == 14
        close == Column(data, "Close")
    IN  IF n < window + 1
        THEN [risk_score |-> 0, details |-> [rsi |-> <<>>, status |-> "insufficient_data"]]
        ELSE
          LET lo == n - window + 1
              delta == [i \in lo..n |-> close[i] - close[i - 1]]
              gains == SumOver([i \in lo..n |-> IF delta[i] > 0 THEN delta[i] ELSE 0], lo, n)
              losses == SumOver([i \in lo..n |-> IF delta[i] < 0 THEN -delta[i] ELSE 0], lo, n)
              RsiGe(t) == 100 * gains >= t * (gains + losses)
              RsiLe(t) == 100 * gains <= t * (gains + losses)
          IN  IF gains = 0 /\ losses = 0
              THEN [risk_score |-> 0, details |-> [rsi |-> <<>>, status |-> "invalid_data"]]
              ELSE IF RsiGe(80)
              THEN [risk_score |-> 90,
                    details |-> [rsi |-> <<gains, losses>>, status |-> "extremely_overbought"]]
              ELSE IF RsiGe(70)
              THEN [risk_score |-> 70,
                    details |-> [rsi |-> <<gains, losses>>, status |-> "overbought"]]
              ELSE IF RsiLe(20)
              THEN [risk_score |-> 90,
                    details |-> [rsi |-> <<gains, losses>>, status |-> "extremely_oversold"]]
              ELSE IF RsiLe(30)
              THEN [risk_score |-> 70,
                    details |-> [rsi |-> <<gains, losses>>, status |-> "oversold"]]
              ELSE [risk_score |-> 0,
                    details |-> [rsi |-> <<gains, losses>>, status |-> "neutral"]]

\* PriceAnomalyDetector._check_momentum (window = 10)
check_momentum(data) ==
    LET n == Len(data)
        window == 10
        close == Column(data, "Close")
    IN  IF n < window
        THEN [risk_score |-> 0,
              details |-> [momentum |-> <<>>, status |-> "insufficient_data"]]
        ELSE
          LET base == close[n - window + 1]
              momentum == close[n] - base
              \* abs(momentum_percent) >= t
              AbsGe(t) == 100 * Abs(momentum) >= t * base
              mp == <<100 * momentum, base>>
          IN  IF AbsGe(30)
              THEN [risk_score |-> 100,
                    details |-> [momentum_percent |-> mp, status |-> "extreme_momentum"]]
              ELSE IF AbsGe(20)
              THEN [risk_score |-> 85,
                    details |-> [momentum_percent |-> mp, status |-> "very_high_momentum"]]
              ELSE IF AbsGe(15)
              THEN [risk_score |-> 70,
                    details |-> [momentum_percent |-> mp, status |-> "high_momentum"]]
              ELSE IF AbsGe(10)
              THEN [risk_score |-> 50,
                    details |-> [momentum_percent |-> mp, status |-> "moderate_momentum"]]
              ELSE [risk_score |-> 0,
                    details |-> [momentum_percent |-> mp, status |-> "normal_momentum"]]

\* the weighted sum rounded to the nearest integer
combine_risk_scores_rounded(scores) ==
    (40 * scores[1] + 25 * scores[2] + 20 * scores[3] + 15 * scores[4] + 50) \div 100

\* the four sub-scores weighted alike
combine_risk_scores_equal_weights(scores) ==
    (25 * scores[1] + 25 * scores[2] + 25 * scores[3] + 25 * scores[4]) \div 100

\* PriceAnomalyDetector._combine_risk_scores: int(0.40 z + 0.25 b + 0.20 r + 0.15 m)
combine_risk_scores(scores) ==
    (40 * scores[1] + 25 * scores[2] + 20 * scores[3] + 15 * scores[4]) \div 100

\* PriceAnomalyDetector.detect_multiple_indicators
detect_multiple_indicators(data, window_days, z_score_threshold) ==
    LET base_result == PriceAnomalyDetector_detect(data, window_days, z_score_threshold)
        bollinger_result == check_bollinger_bands(data)
        rsi_result == check_rsi(data)
        momentum_result == check_momentum(data)
        combined_risk == combine_risk_scores(<<base_result.risk_score,
                                               bollinger_result.risk_score,
                                               rsi_result.risk_score,
                                               momentum_result.risk_score>>)
    IN  [base_result EXCEPT
           !.risk_score = combined_risk,
           !.is_suspicious = combined_risk >= 60,
           !.details = ("bollinger_bands" :> bollinger_result.details)
                       @@ ("rsi" :> rsi_result.details)
                       @@ ("momentum" :> momentum_result.details)
                       @@ base_result.details]

----------------------------------------------------------------------------
(* IsolationForestDetector.predict_single, as far as the scorer uses it *)

\* risk_score of predict_single, in tenths, from the anomaly score in
\* hundredths
\* the mapping of predict_single without its final clamp
predict_single_risk_unclamped(anomaly_score) ==
    LET a == anomaly_score
    IN  IF a < -50 THEN 800 + (Abs(a) - 50) * 4
        ELSE IF a < 0 THEN 600 + Abs(a) * 4
        ELSE IF a < 50 THEN 300 + (50 - a) * 6
        ELSE (100 - a) * 6

predict_single_risk(anomaly_score) ==
    LET a == anomaly_score
        risk == IF a < -50 THEN 800 + (Abs(a) - 50) * 4
                ELSE IF a < 0 THEN 600 + Abs(a) * 4
                ELSE IF a < 50 THEN 300 + (50 - a) * 6
                ELSE (100 - a) * 6
    IN  Max(0, Min(1000, risk))

\* predict_single on the scorer's detector; mlenv is what the fitted scaler
\* and ensemble do on this call
predict_single(ml_detector, mlenv) ==
    IF ml_detector # "trained" \/ mlenv.predict = "raise"
    THEN [raised |-> TRUE, prediction |-> 0, anomaly_score |-> 0,
          risk_score |-> 0, is_anomaly |-> FALSE]
    ELSE [raised |-> FALSE, prediction |-> mlenv.prediction,
          anomaly_score |-> mlenv.anomaly_score,
          risk_score |-> predict_single_risk(mlenv.anomaly_score),
          is_anomaly |-> mlenv.prediction = -1]

\* FeatureEngineer.extract_features: "empty", "rows" or "raise"
extract_features(data, window_days, mlenv) ==
    IF Len(data) < window_days THEN "empty"
    ELSE IF mlenv.extract = "raise" THEN "raise"
    ELSE "rows"

----------------------------------------------------------------------------
(* RiskScorer *)

\* RiskScorer._initialize_ml_model; env is the process environment of the
\* construction: whether the ML modules import, which model file exists and
\* what the bundle holds ("corrupt": joblib.load or a key lookup raises)
initialize_ml_model(self, env, model_path) ==
    IF ~env.ML_AVAILABLE
    THEN [self EXCEPT !.ml_error = "ML modules not available"]
    ELSE IF model_path = "None" /\ ~env.default_exists
    THEN [self EXCEPT !.ml_error = "Model file not found. Tried"]
    ELSE IF model_path # "None" /\ ~env.path_exists
    THEN [self EXCEPT !.feature_engineer = TRUE, !.ml_detector = "untrained",
                      !.ml_error = "Model file not found"]
    ELSE IF env.bundle = "corrupt"
    THEN [self EXCEPT !.feature_engineer = TRUE, !.ml_detector = "untrained",
                      !.ml_error = "Error loading ML model"]
    ELSE [self EXCEPT !.feature_engineer = TRUE,
                      !.ml_detector = IF env.bundle = "trained" THEN "trained"
                                      ELSE "untrained",
                      !.ml_enabled = TRUE,
                      !.ml_error = "None"]

\* RiskScorer.__init__
RiskScorer_init(ml_model_env, ml_model_path, use_ml) ==
    LET self0 == [constructed |-> TRUE,
                  volume_detector |-> [window_days |-> 30, spike_threshold |-> 20],
                  price_detector |-> [window_days |-> 30, z_score_threshold |-> 20],
                  ml_detector |-> "None",
                  feature_engineer |-> FALSE,
                  ml_enabled |-> FALSE,
                  ml_error |-> "None",
                  weights |-> [volume |-> 0, price |-> 0, social |-> 0, ml |-> 0]]
        self1 == IF use_ml /\ ml_model_env.ML_AVAILABLE
                 THEN initialize_ml_model(self0, ml_model_env, ml_model_path)
                 ELSE IF use_ml /\ ~ml_model_env.ML_AVAILABLE
                 THEN [self0 EXCEPT !.ml_error =
                          "ML modules not available (isolation_forest, feature_engineer)"]
                 ELSE self0
    IN  IF self1.ml_enabled
        THEN [self1 EXCEPT !.weights =
                 [volume |-> 30, price |-> 35, social |-> 10, ml |-> 25]]
        ELSE [self1 EXCEPT !.weights =
                 [volume |-> 35, price |-> 40, social |-> 15, ml |-> 10]]

\* _get_ml_score without its try/except: an exception of feature extraction
\* or of predict_single reaches the caller
get_ml_score_unguarded(self, data, mlenv) ==
    IF ~self.ml_enabled
    THEN [raised |-> FALSE, ml_score |-> 0, ml_available |-> FALSE,
          ml_error |-> IF self.ml_error # "None" THEN self.ml_error
                       ELSE "ML model not enabled",
          ml_details |-> EmptyDict]
    ELSE IF extract_features(data, 30, mlenv) = "empty"
    THEN [raised |-> FALSE, ml_score |-> 0, ml_available |-> FALSE,
          ml_error |-> "Feature extraction returned empty DataFrame",
          ml_details |-> EmptyDict]
    ELSE
      LET ml_result == predict_single(self.ml_detector, mlenv)
          failed == extract_features(data, 30, mlenv) = "raise" \/ ml_result.raised
      IN  [raised |-> failed,
           ml_score |-> IF failed THEN 0 ELSE ml_result.risk_score,
           ml_available |-> ~failed,
           ml_error |-> "None",
           ml_details |-> [anomaly_score |-> ml_result.anomaly_score,
                           is_anomaly |-> ml_result.is_anomaly,
                           prediction |-> ml_result.prediction]]

\* RiskScorer._get_ml_score; ml_score in tenths
get_ml_score(self, data, mlenv) ==
    IF ~self.ml_enabled
    THEN [raised |-> FALSE, ml_score |-> 0, ml_available |-> FALSE,
          ml_error |-> IF self.ml_error # "None" THEN self.ml_error
                       ELSE "ML model not enabled",
          ml_details |-> EmptyDict]
    ELSE
      LET features_df == extract_features(data, 30, mlenv)
      IN  IF features_df = "raise"
          THEN [raised |-> FALSE, ml_score |-> 0, ml_available |-> FALSE,
                ml_error |-> "ML prediction error", ml_details |-> EmptyDict]
          ELSE IF features_df = "empty"
          THEN [raised |-> FALSE, ml_score |-> 0, ml_available |-> FALSE,
                ml_error |-> "Feature extraction returned empty DataFrame",
                ml_details |-> EmptyDict]
          ELSE
            LET ml_result == predict_single(self.ml_detector, mlenv)
            IN  IF ml_result.raised
                THEN [raised |-> FALSE, ml_score |-> 0, ml_available |-> FALSE,
                      ml_error |-> "ML prediction error", ml_details |-> EmptyDict]
                ELSE [raised |-> FALSE, ml_score |-> ml_result.risk_score,
                      ml_available |-> TRUE, ml_error |-> "None",
                      ml_details |-> [anomaly_score |-> ml_result.anomaly_score,
                                      is_anomaly |-> ml_result.is_anomaly,
                                      prediction |-> ml_result.prediction]]

\* a redistribution that halves the ML weight between volume and price
effective_weights_even_split(weights, ml_available) ==
    IF ~ml_available
    THEN [volume |-> 10 * weights.volume + weights.ml * 5,
          price |-> 10 * weights.price + weights.ml * 5,
          social |-> 10 * weights.social,
          ml |-> 0]
    ELSE [volume |-> 10 * weights.volume, price |-> 10 * weights.price,
          social |-> 10 * weights.social, ml |-> 10 * weights.ml]

\* a redistribution that hands the whole ML weight to volume and to price
effective_weights_twice(weights, ml_available) ==
    IF ~ml_available
    THEN [volume |-> 10 * weights.volume + weights.ml * 10,
          price |-> 10 * weights.price + weights.ml * 10,
          social |-> 10 * weights.social,
          ml |-> 0]
    ELSE [volume |-> 10 * weights.volume, price |-> 10 * weights.price,
          social |-> 10 * weights.social, ml |-> 10 * weights.ml]

\* a redistribution that also hands the social weight to volume and price
effective_weights_social_shared(weights, ml_available) ==
    IF ~ml_available
    THEN [volume |-> 10 * weights.volume + (weights.ml + weights.social) * 4,
          price |-> 10 * weights.price + (weights.ml + weights.social) * 6,
          social |-> 0,
          ml |-> 0]
    ELSE [volume |-> 10 * weights.volume, price |-> 10 * weights.price,
          social |-> 10 * weights.social, ml |-> 10 * weights.ml]

\* the weights calculate_risk_score uses, in thousandths
effective_weights(weights, ml_available) ==
    IF ~ml_available
    THEN [volume |-> 10 * weights.volume + weights.ml * 4,
          price |-> 10 * weights.price + weights.ml * 6,
          social |-> 10 * weights.social,
          ml |-> 0]
    ELSE [volume |-> 10 * weights.volume, price |-> 10 * weights.price,
          social |-> 10 * weights.social, ml |-> 10 * weights.ml]

\* a scorer that keeps the weights it used for the call as its stored weights
scorer_keeping_weights(self, w) ==
    [self EXCEPT !.weights = [volume |-> w.volume \div 10, price |-> w.price \div 10,
                              social |-> w.social \div 10, ml |-> w.ml \div 10]]

\* the scorer after calculate_risk_score: the weights w of the call are a
\* dict of their own, and no attribute of self is assigned
scorer_after_scoring(self, w) == self

\* the weighted sum of calculate_risk_score, in ten-thousandths of a point
weighted_sum(w, volume_risk, price_risk, social_score, ml_score) ==
    10 * volume_risk * w.volume + 10 * price_risk * w.price
    + 10 * social_score * w.social + ml_score * w.ml

\* round(final_risk_score): the nearest integer instead of the truncation
final_risk_score_rounded(w, volume_risk, price_risk, social_score, ml_score) ==
    (weighted_sum(w, volume_risk, price_risk, social_score, ml_score) + 5000) \div 10000

\* int(final_risk_score)
final_risk_score(w, volume_risk, price_risk, social_score, ml_score) ==
    weighted_sum(w, volume_risk, price_risk, social_score, ml_score) \div 10000

\* the levels with strict comparisons
get_risk_level_strict(score) ==
    IF score > 80 THEN "EXTREME RISK"
    ELSE IF score > 60 THEN "HIGH RISK"
    ELSE IF score > 40 THEN "MEDIUM RISK"
    ELSE IF score > 20 THEN "LOW RISK"
    ELSE "MINIMAL RISK"

\* RiskScorer._get_risk_level
get_risk_level(score) ==
    IF score >= 80 THEN "EXTREME RISK"
    ELSE IF score >= 60 THEN "HIGH RISK"
    ELSE IF score >= 40 THEN "MEDIUM RISK"
    ELSE IF score >= 20 THEN "LOW RISK"
    ELSE "MINIMAL RISK"

get_recommendation(risk_score, risk_level) ==
    IF risk_score >= 80 THEN "DO NOT BUY"
    ELSE IF risk_score >= 60 THEN "AVOID"
    ELSE IF risk_score >= 40 THEN "CAUTION"
    ELSE IF risk_score >= 20 THEN "MONITOR"
    ELSE "NORMAL"

\* dict.get(key, default)
DictGet(d, key, default) == IF key \in DOMAIN d THEN d[key] ELSE default

\* <<x>> when the condition holds: one conditional append
When(cond, x) == IF cond THEN <<x>> ELSE <<>>

\* the status the scorer reads for an indicator: it looks for a 'details'
\* dict inside price_details[name] and for 'status' inside that
IndicatorStatus(price_details, name) ==
    IF name \in DOMAIN price_details
    THEN LET data == DictGet(price_details[name], "details", EmptyDict)
         IN  IF "status" \in DOMAIN data THEN data["status"] ELSE "no status"
    ELSE "no status"

\* RiskScorer._generate_explanation: the segments joined by " | ", or the
\* generic message alone
generate_explanation(volume_result, price_result, final_score, ml_result) ==
    LET volume_details == DictGet(volume_result, "details", EmptyDict)
        price_details == DictGet(price_result, "details", EmptyDict)
        vol_ratio == DictGet(volume_details, "volume_ratio", <<0, 1>>)
        price_change == DictGet(price_details, "price_change_percent", 0)
        rsi_status == IndicatorStatus(price_details, "rsi")
        bb_status == IndicatorStatus(price_details, "bollinger_bands")
        ml_score == ml_result.ml_score
        explanations ==
            When(volume_result.is_suspicious /\ vol_ratio[1] > 0,
                 "Trading volume is above normal")
            \o When(price_result.is_suspicious /\ price_change # 0,
                    IF price_change > 0 THEN "Price increased abnormally"
                    ELSE "Price decreased abnormally")
            \o When(rsi_status \in {"overbought", "extremely_overbought"},
                    "RSI indicates overbought condition")
            \o When(rsi_status \in {"oversold", "extremely_oversold"},
                    "RSI indicates oversold condition")
            \o When(bb_status = "overbought", "Price above Bollinger Band upper limit")
            \o When(bb_status = "oversold", "Price below Bollinger Band lower limit")
            \o When(ml_result.ml_available /\ ml_score >= 700,
                    "ML model detected high-risk pattern")
            \o When(ml_result.ml_available /\ ml_score < 700 /\ ml_score >= 500,
                    "ML model detected moderate risk")
            \o When(ml_result.ml_available
                    /\ DictGet(ml_result.ml_details, "is_anomaly", FALSE),
                    "ML model flagged as anomaly pattern")
    IN  IF explanations = <<>>
        THEN IF final_score >= 40
             THEN <<"Multiple weak signals detected - monitor for further activity">>
             ELSE <<"No significant anomalies detected - normal trading activity">>
        ELSE explanations

\* red flags whose pump-and-dump flag is raised when either detector is
\* suspicious
identify_red_flags_either(volume_result, price_result, ml_result) ==
    LET price_details == DictGet(price_result, "details", EmptyDict)
        volume_risk == volume_result.risk_score
        price_risk == price_result.risk_score
        rsi_status == IndicatorStatus(price_details, "rsi")
        momentum_status == IndicatorStatus(price_details, "momentum")
        ml_score == ml_result.ml_score
    IN  When(volume_risk >= 80, "EXTREME volume spike")
        \o When(volume_risk < 80 /\ volume_risk >= 60, "HIGH volume spike")
        \o When(price_risk >= 80, "EXTREME price movement")
        \o When(price_risk < 80 /\ price_risk >= 60, "UNUSUAL price movement")
        \o When(rsi_status = "extremely_overbought", "RSI extremely overbought")
        \o When(rsi_status = "extremely_oversold", "RSI extremely oversold")
        \o When(momentum_status \in {"extreme_momentum", "very_high_momentum"},
                "High price momentum")
        \o When(ml_result.ml_available /\ ml_score >= 800,
                "ML MODEL: EXTREME risk detected")
        \o When(ml_result.ml_available /\ ml_score < 800 /\ ml_score >= 600,
                "ML MODEL: High risk detected")
        \o When(ml_result.ml_available
                /\ DictGet(ml_result.ml_details, "is_anomaly", FALSE),
                "ML MODEL: Anomaly pattern detected")
        \o When(volume_result.is_suspicious \/ price_result.is_suspicious,
                "CRITICAL: Both volume AND price showing anomalies (classic pump-and-dump pattern)")
        \o When(ml_result.ml_available /\ ml_score >= 600
                /\ (volume_risk >= 60 \/ price_risk >= 60),
                "CRITICAL: ML model AND statistical methods both flagging high risk")

\* red flags that leave out the "HIGH", "UNUSUAL" and "High risk" steps
identify_red_flags_extreme_only(volume_result, price_result, ml_result) ==
    LET volume_risk == volume_result.risk_score
        price_risk == price_result.risk_score
        ml_score == ml_result.ml_score
    IN  When(volume_risk >= 80, "EXTREME volume spike")
        \o When(price_risk >= 80, "EXTREME price movement")
        \o When(ml_result.ml_available /\ ml_score >= 800,
                "ML MODEL: EXTREME risk detected")
        \o When(ml_result.ml_available
                /\ DictGet(ml_result.ml_details, "is_anomaly", FALSE),
                "ML MODEL: Anomaly pattern detected")
        \o When(volume_result.is_suspicious /\ price_result.is_suspicious,
                "CRITICAL: Both volume AND price showing anomalies (classic pump-and-dump pattern)")
        \o When(ml_result.ml_available /\ ml_score >= 600
                /\ (volume_risk >= 60 \/ price_risk >= 60),
                "CRITICAL: ML model AND statistical methods both flagging high risk")

\* RiskScorer._identify_red_flags
identify_red_flags(volume_result, price_result, ml_result) ==
    LET price_details == DictGet(price_result, "details", EmptyDict)
        volume_risk == volume_result.risk_score
        price_risk == price_result.risk_score
        rsi_status == IndicatorStatus(price_details, "rsi")
        momentum_status == IndicatorStatus(price_details, "momentum")
        ml_score == ml_result.ml_score
    IN  When(volume_risk >= 80, "EXTREME volume spike")
        \o When(volume_risk < 80 /\ volume_risk >= 60, "HIGH volume spike")
        \o When(price_risk >= 80, "EXTREME price movement")
        \o When(price_risk < 80 /\ price_risk >= 60, "UNUSUAL price movement")
        \o When(rsi_status = "extremely_overbought", "RSI extremely overbought")
        \o When(rsi_status = "extremely_oversold", "RSI extremely oversold")
        \o When(momentum_status \in {"extreme_momentum", "very_high_momentum"},
                "High price momentum")
        \o When(ml_result.ml_available /\ ml_score >= 800,
                "ML MODEL: EXTREME risk detected")
        \o When(ml_result.ml_available /\ ml_score < 800 /\ ml_score >= 600,
                "ML MODEL: High risk detected")
        \o When(ml_result.ml_available
                /\ DictGet(ml_result.ml_details, "is_anomaly", FALSE),
                "ML MODEL: Anomaly pattern detected")
        \o When(volume_result.is_suspicious /\ price_result.is_suspicious,
                "CRITICAL: Both volume AND price showing anomalies (classic pump-and-dump pattern)")
        \o When(ml_result.ml_available /\ ml_score >= 600
                /\ (volume_risk >= 60 \/ price_risk >= 60),
                "CRITICAL: ML model AND statistical methods both flagging high risk")

\* RiskScorer.calculate_risk_score from the results of the two detectors and
\* of _get_ml_score (lines 223-302): [raised, frame, value], frame being the
\* local variables of the call and value the returned assessment
assess(self, ticker, volume_result, price_result, ml_result) ==
    LET ml_score == ml_result.ml_score
        ml_available == ml_result.ml_available
        ml_error == ml_result.ml_error
        social_score == 0
        volume_risk == volume_result.risk_score
        price_risk == price_result.risk_score
        w == effective_weights(self.weights, ml_available)
        final == final_risk_score(w, volume_risk, price_risk, social_score, ml_score)
        risk_level == get_risk_level(final)
        ml_entry == IF ml_available THEN ("ml" :> ml_result.ml_details)
                    ELSE IF ml_error # "None"
                    THEN ("ml" :> [error |-> ml_error, available |-> FALSE])
                    ELSE EmptyDict
    IN  [raised |-> ml_result.raised,
         self |-> scorer_after_scoring(self, w),
         frame |-> [volume_result |-> volume_result,
                    price_result |-> price_result,
                    ml_result |-> ml_result,
                    effective_weights |-> w],
         value |-> [ticker |-> ticker,
                    risk_score |-> final,
                    risk_level |-> risk_level,
                    is_suspicious |-> final >= 60,
                    explanation |-> generate_explanation(volume_result, price_result,
                                                         final, ml_result),
                    red_flags |-> identify_red_flags(volume_result, price_result,
                                                     ml_result),
                    individual_scores |-> [volume_spike |-> volume_risk,
                                           price_anomaly |-> price_risk,
                                           social_sentiment |-> social_score,
                                           ml_anomaly |-> ml_score],
                    ml_status |-> [enabled |-> ml_available,
                                   error |-> ml_error,
                                   score |-> ml_score],
                    details |-> ml_entry
                                @@ [volume |-> volume_result.details,
                                    price |-> price_result.details],
                    recommendation |-> get_recommendation(final, risk_level)]]

\* RiskScorer.calculate_risk_score
calculate_risk_score(self, data, ticker, mlenv) ==
    assess(self, ticker,
           VolumeSpikeDetector_detect(data, self.volume_detector.window_days,
                                      self.volume_detector.spike_threshold),
           detect_multiple_indicators(data, self.price_detector.window_days,
                                      self.price_detector.z_score_threshold),
           get_ml_score(self, data, mlenv))

----------------------------------------------------------------------------
(* Inputs *)

\* n rows: the close is P and moves to L for the last K rows, the volume is
\* V and is W on the last row
Series(n, P, L, K, V, W) ==
    [i \in 1..n |-> [Close |-> IF i > n - K THEN L ELSE P,
                     Volume |-> IF i = n THEN W ELSE V]]

SeriesLengths == {0, 1, 14, 15, 20, 29, 30, 31, 40, MaxLen}

BasePrices == {50, 100}

\* the move of the close, in percent of the base price
PriceMoves == {-30, 2, 22}

StepDays == {1, 12}

\* <<V, W>>
VolumePatterns == {<<0, 0>>, <<3, 3>>, <<3, 9>>, <<3, 58>>}

SeriesShapes ==
    {Series(n, P, P, 0, vw[1], vw[2]) :
        n \in SeriesLengths, P \in BasePrices, vw \in VolumePatterns}
    \cup
    {Series(x[1], x[2], x[2] + (x[2] * x[3]) \div 100, x[4], vw[1], vw[2]) :
        x \in SeriesLengths \X BasePrices \X PriceMoves \X StepDays,
        vw \in VolumePatterns}

\* the series the calls are made on
SeriesInputs == {data \in SeriesShapes : WholePercent(data)}

\* previous_data of detect_realtime: None, an empty frame, or one reading
PreviousInputs ==
    {[is_none |-> TRUE, rows |-> <<>>], [is_none |-> FALSE, rows |-> <<>>]}
    \cup {[is_none |-> FALSE, rows |-> <<[Close |-> 100, Volume |-> v]>>] :
            v \in {0, 1, 4}}

\* anomaly scores the ensemble returns, in hundredths
AnomalyScores == {-75, -20, 20, 75}

\* what the feature extraction, the scaler and the ensemble do on one call
MlEnvs ==
    {[extract |-> "raise", predict |-> "ok", anomaly_score |-> 0, prediction |-> 1],
     [extract |-> "ok", predict |-> "raise", anomaly_score |-> 0, prediction |-> 1]}
    \cup {[extract |-> "ok", predict |-> "ok", anomaly_score |-> a, prediction |-> q] :
            a \in AnomalyScores, q \in {-1, 1}}

\* the environment of a construction: whether the ML modules import,
\* whether a bundle exists at one of the default locations and at the given
\* path, and what the bundle holds
ModelEnvs ==
    {[ML_AVAILABLE |-> FALSE, default_exists |-> TRUE, path_exists |-> TRUE,
      bundle |-> "trained"],
     [ML_AVAILABLE |-> TRUE, default_exists |-> FALSE, path_exists |-> FALSE,
      bundle |-> "trained"]}
    \cup {[ML_AVAILABLE |-> TRUE, default_exists |-> TRUE, path_exists |-> TRUE,
           bundle |-> b] : b \in {"trained", "untrained", "corrupt"}}

\* the ML environments that can make a difference to a call of this scorer
MlEnvsFor(self) ==
    IF self.ml_enabled THEN MlEnvs ELSE {e \in MlEnvs : e.extract = "raise"}

\* The feature extraction and the fitted model are deterministic: what they
\* do on a call depends on the series alone.  The model keeps one answer for
\* the series whose close never moves (their features are degenerate) and one
\* for the others.
SeriesKind(data) ==
    IF \A i \in DOMAIN data : data[i].Close = data[1].Close THEN "flat" ELSE "moving"

FittedModels ==
    {[kind \in {"flat", "moving"} |-> IF kind = "flat" THEN f ELSE m] :
        f \in {e \in MlEnvs : e.predict = "ok" => (e.anomaly_score = -75 /\ e.prediction = -1)},
        m \in MlEnvs}

\* no model attached: nothing is asked
NothingFitted ==
    [kind \in {"flat", "moving"} |-> CHOOSE e \in MlEnvs : e.extract = "raise"]

Answer(model, data) == model[SeriesKind(data)]

\* no call yet; failed tells whether a later call lost its ML prediction
NoEarlier == [scored |-> FALSE, data |-> <<>>, result |-> EmptyDict, failed |-> FALSE]

----------------------------------------------------------------------------
(* RiskScorer over several tickers *)

\* One value of stock_data_dict: a frame, or None
Frame(rows) == [is_none |-> FALSE, rows |-> rows]

NoFrame == [is_none |-> TRUE, rows |-> <<>>]

\* the record batch_calculate_risk stores for a ticker whose scoring raised
error_record(ticker, e) ==
    [ticker |-> ticker,
     risk_score |-> 0,
     risk_level |-> "ERROR",
     is_suspicious |-> FALSE,
     explanation |-> <<"Error calculating risk: " \o e>>,
     red_flags |-> <<>>,
     individual_scores |-> EmptyDict,
     details |-> EmptyDict,
     recommendation |-> "Unable to analyze - data error"]

\* calculate_risk_score on one value of the dict: detect_multiple_indicators
\* takes len() of it in _check_bollinger_bands, which raises TypeError on None
calculate_risk_score_on(self, data, ticker, model) ==
    IF data.is_none
    THEN [raised |-> TRUE, self |-> self,
          error |-> "object of type 'NoneType' has no len()", value |-> EmptyDict]
    ELSE LET r == calculate_risk_score(self, data.rows, ticker, Answer(model, data.rows))
         IN  [raised |-> r.raised, self |-> r.self,
              error |-> "prediction failed", value |-> r.value]

\* what an iteration of the loop stores under the ticker: the assessment r
\* returned, or the error record when the scoring raised
batch_entry(ticker, r) ==
    [ticker |-> ticker,
     result |-> IF r.raised THEN error_record(ticker, r.error) ELSE r.value]

\* a loop over the items from entry i on that stops at the first ticker whose
\* scoring raises
RECURSIVE batch_until_error(_, _, _, _, _)
batch_until_error(self, stock_data_dict, model, i, results) ==
    IF i > Len(stock_data_dict)
    THEN [self |-> self, results |-> results]
    ELSE CHOOSE after \in
             {IF r.raised
              THEN [self |-> r.self, results |-> results]
              ELSE batch_until_error(r.self, stock_data_dict, model, i + 1,
                                     Append(results,
                                            batch_entry(stock_data_dict[i].ticker, r))) :
                 r \in {calculate_risk_score_on(self, stock_data_dict[i].data,
                                                stock_data_dict[i].ticker, model)}} : TRUE

\* the loop of batch_calculate_risk from entry i on; r is what the scoring of
\* entry i gives
RECURSIVE batch_loop(_, _, _, _, _)
batch_loop(self, stock_data_dict, model, i, results) ==
    IF i > Len(stock_data_dict)
    THEN [self |-> self, results |-> results]
    ELSE CHOOSE after \in
             {batch_loop(r.self, stock_data_dict, model, i + 1,
                         Append(results, batch_entry(stock_data_dict[i].ticker, r))) :
                 r \in {calculate_risk_score_on(self, stock_data_dict[i].data,
                                                stock_data_dict[i].ticker, model)}} : TRUE

\* RiskScorer.batch_calculate_risk: the dicts are the sequences of their
\* items in insertion order, the keys being distinct
batch_calculate_risk(self, stock_data_dict, model) ==
    batch_loop(self, stock_data_dict, model, 1, <<>>)

\* the entry of a high-risk list for one item of results
projection(item) ==
    [ticker |-> item.ticker,
     risk_score |-> item.result.risk_score,
     risk_level |-> item.result.risk_level,
     red_flags |-> item.result.red_flags]

\* a comprehension that keeps the scores above the threshold only
high_risk_strictly_above(results, threshold) ==
    SelectSeq([i \in DOMAIN results |-> projection(results[i])],
              LAMBDA x : x.risk_score > threshold)

\* the list comprehension of get_high_risk_stocks
high_risk_of(results, threshold) ==
    SelectSeq([i \in DOMAIN results |-> projection(results[i])],
              LAMBDA x : x.risk_score >= threshold)

\* list.sort(key=risk_score, reverse=True): a stable sort, so that entries of
\* equal score keep their order.  The entry at position k is the one with
\* k - 1 entries before it: those of higher score and the earlier ones of
\* equal score.
sort_by_risk_score_descending(list) ==
    LET before(i) == {j \in DOMAIN list :
                        \/ list[j].risk_score > list[i].risk_score
                        \/ (list[j].risk_score = list[i].risk_score /\ j < i)}
    IN  [k \in DOMAIN list |->
            list[CHOOSE i \in DOMAIN list : Cardinality(before(i)) = k - 1]]

\* RiskScorer.get_high_risk_stocks: the dict it was given, which it only
\* reads, and the list it returns
get_high_risk_stocks(results, threshold) ==
    [results |-> results,
     high_risk |-> sort_by_risk_score_descending(high_risk_of(results, threshold))]


----------------------------------------------------------------------------
(* IsolationForestDetector                                                 *)
(*                                                                         *)
(* A table is [columns, rows]: the ordered column names and the rows, each *)
(* a function from the column names to integers.  The scaler and the       *)
(* ensemble are sklearn objects; the model keeps of them what their fit    *)
(* stored (the columns seen, the column means, the hyperparameters) and    *)
(* lets their answers be a fixed function of that and of the row.          *)

NoColumns == [is_none |-> TRUE, names |-> <<>>]

SomeColumns(names) == [is_none |-> FALSE, names |-> names]

\* the elements of a sequence
Range(seq) == {seq[i] : i \in DOMAIN seq}

\* StandardScaler()
UnfittedScaler == [fitted |-> FALSE, names |-> <<>>, mean |-> <<>>]

\* IsolationForest(contamination, n_estimators, max_samples, random_state)
UnfittedForest(contamination, n_estimators, max_samples, random_state) ==
    [fitted |-> FALSE, contamination |-> contamination,
     n_estimators |-> n_estimators, max_samples |-> max_samples,
     random_state |-> random_state, n_features |-> 0, seen |-> <<>>]

\* IsolationForestDetector.__init__; contamination in hundredths,
\* max_samples 0 for None
IsolationForestDetector_init(contamination, n_estimators, max_samples, random_state) ==
    [contamination |-> contamination,
     n_estimators |-> n_estimators,
     max_samples |-> max_samples,
     random_state |-> random_state,
     model |-> UnfittedForest(contamination, n_estimators, max_samples, random_state),
     scaler |-> UnfittedScaler,
     feature_columns |-> NoColumns,
     is_trained |-> FALSE,
     training_info |-> EmptyDict]

\* table[names]: the rows restricted to the names, in that order, as
\* sequences of values
Select(table, names) ==
    [r \in DOMAIN table.rows |-> [k \in DOMAIN names |-> table.rows[r][names[k]]]]

\* scaler.fit(X) on the columns named names
ScalerFit(X, names) ==
    [fitted |-> TRUE, names |-> names,
     mean |-> [k \in DOMAIN names |->
                 SumOver([r \in DOMAIN X |-> X[r][k]], 1, Len(X)) \div Len(X)]]

\* scaler.transform of one row
ScalerTransformRow(scaler, x) == [k \in DOMAIN x |-> x[k] - scaler.mean[k]]

\* model.fit(X_scaled)
ForestFit(model, X_scaled, width) ==
    [model EXCEPT !.fitted = TRUE, !.n_features = width, !.seen = X_scaled]

\* model.score_samples of one scaled row, in hundredths: lower for rows far
\* from the rows the forest has seen
ScoreSample(model, z) ==
    LET far == SumOver([k \in DOMAIN z |-> Abs(z[k])], 1, Len(z))
    IN  - Min(100, model.n_estimators \div 10 + Len(model.seen) + 10 * far)

\* model.predict of one scaled row: -1 for an anomaly
PredictSample(model, z) ==
    IF ScoreSample(model, z) < - (100 - model.contamination) THEN -1 ELSE 1

\* IsolationForestDetector.train; value [raised, self, training_info]
IsolationForestDetector_train(self, training_data, feature_columns) ==
    LET exclude_cols == {"ticker", "date", "Date"}
        names == IF feature_columns.is_none
                 THEN SelectSeq(training_data.columns, LAMBDA c : c \notin exclude_cols)
                 ELSE feature_columns.names
        self1 == [self EXCEPT !.feature_columns = SomeColumns(names)]
    IN  IF ~(Range(names) \subseteq Range(training_data.columns))
        THEN \* training_data[feature_columns] raises KeyError
             [raised |-> TRUE, self |-> self1, training_info |-> EmptyDict]
        ELSE
          LET X == Select(training_data, names)
              scaler == ScalerFit(X, names)
              X_scaled == [r \in DOMAIN X |-> ScalerTransformRow(scaler, X[r])]
              model == ForestFit(self.model, X_scaled, Len(names))
              n_anomalies == Cardinality({r \in DOMAIN X_scaled :
                                             PredictSample(model, X_scaled[r]) = -1})
              info == [n_samples |-> Len(training_data.rows),
                       n_features |-> Len(names),
                       n_anomalies_detected |-> n_anomalies,
                       n_normal_detected |-> Len(X_scaled) - n_anomalies,
                       anomaly_rate |-> <<n_anomalies, Len(training_data.rows)>>,
                       contamination |-> self.contamination,
                       n_estimators |-> self.n_estimators]
          IN  [raised |-> FALSE,
               self |-> [self1 EXCEPT !.scaler = scaler, !.model = model,
                                      !.is_trained = TRUE, !.training_info = info],
               training_info |-> info]

\* what scaler.transform and the forest do with rows of the columns names:
\* "ok", "raise" (a different number of columns, or nothing fitted), or
\* "names" (the same number of columns under other names, which the library
\* rejects or transforms by position, depending on its version)
Fit(self, names) ==
    IF ~self.scaler.fitted \/ ~self.model.fitted THEN "raise"
    ELSE IF Len(self.scaler.names) # Len(names) \/ self.model.n_features # Len(names)
    THEN "raise"
    ELSE IF self.scaler.names # names THEN "names"
    ELSE "ok"

Raised == [raised |-> TRUE, rows |-> <<>>]

\* the results DataFrame of predict for the rows X; risk_score is the ratio
\* <<numerator, denominator>>
\* a batch prediction whose risk is the normalised anomaly score itself,
\* not inverted
PredictRows_not_inverted(self, data, X) ==
    LET Z == [r \in DOMAIN X |-> ScalerTransformRow(self.scaler, X[r])]
        predictions == [r \in DOMAIN Z |-> PredictSample(self.model, Z[r])]
        anomaly_scores == [r \in DOMAIN Z |-> ScoreSample(self.model, Z[r])]
        min_score == CHOOSE m \in Range(anomaly_scores) :
                        \A x \in Range(anomaly_scores) : m <= x
        max_score == CHOOSE m \in Range(anomaly_scores) :
                        \A x \in Range(anomaly_scores) : m >= x
        keyed == {"ticker", "date"} \subseteq Range(data.columns)
    IN  [r \in DOMAIN Z |->
           [ticker |-> IF keyed THEN data.rows[r]["ticker"] ELSE 0,
            date |-> IF keyed THEN data.rows[r]["date"] ELSE 0,
            prediction |-> predictions[r],
            anomaly_score |-> anomaly_scores[r],
            risk_score |-> IF max_score # min_score
                           THEN <<100 * (anomaly_scores[r] - min_score),
                                  max_score - min_score>>
                           ELSE <<50, 1>>,
            is_anomaly |-> predictions[r] = -1]]

PredictRows(self, data, X) ==
    LET Z == [r \in DOMAIN X |-> ScalerTransformRow(self.scaler, X[r])]
        predictions == [r \in DOMAIN Z |-> PredictSample(self.model, Z[r])]
        anomaly_scores == [r \in DOMAIN Z |-> ScoreSample(self.model, Z[r])]
        min_score == CHOOSE m \in Range(anomaly_scores) :
                        \A x \in Range(anomaly_scores) : m <= x
        max_score == CHOOSE m \in Range(anomaly_scores) :
                        \A x \in Range(anomaly_scores) : m >= x
        keyed == {"ticker", "date"} \subseteq Range(data.columns)
    IN  [r \in DOMAIN Z |->
           [ticker |-> IF keyed THEN data.rows[r]["ticker"] ELSE 0,
            date |-> IF keyed THEN data.rows[r]["date"] ELSE 0,
            prediction |-> predictions[r],
            anomaly_score |-> anomaly_scores[r],
            risk_score |-> IF max_score # min_score
                           THEN <<100 * (max_score - anomaly_scores[r]),
                                  max_score - min_score>>
                           ELSE <<50, 1>>,
            is_anomaly |-> predictions[r] = -1]]

\* IsolationForestDetector.predict: the set of outcomes [raised, rows]
IsolationForestDetector_predict(self, data) ==
    IF ~self.is_trained THEN {Raised}
    ELSE IF self.feature_columns.is_none THEN {Raised}
    ELSE IF ~(Range(self.feature_columns.names) \subseteq Range(data.columns))
    THEN {Raised}
    ELSE IF Len(data.rows) = 0 THEN {Raised}
    ELSE
      LET names == self.feature_columns.names
          computed == [raised |-> FALSE,
                       rows |-> PredictRows(self, data, Select(data, names))]
      IN  CASE Fit(self, names) = "ok" -> {computed}
            [] Fit(self, names) = "names" -> {Raised, computed}
            [] OTHER -> {Raised}

\* IsolationForestDetector.predict_single on a Series of one row: the set of
\* outcomes [raised, value]; risk_score in tenths
IsolationForestDetector_predict_single(self, features) ==
    LET failed == [raised |-> TRUE, value |-> EmptyDict]
    IN  IF ~self.is_trained THEN {failed}
        ELSE IF self.feature_columns.is_none THEN {failed}
        ELSE
          LET names == self.feature_columns.names
              \* a column the row lacks is filled with 0
              x == [k \in DOMAIN names |->
                      IF names[k] \in DOMAIN features THEN features[names[k]] ELSE 0]
              z == ScalerTransformRow(self.scaler, x)
              prediction == PredictSample(self.model, z)
              anomaly_score == ScoreSample(self.model, z)
              computed == [raised |-> FALSE,
                           value |-> [prediction |-> prediction,
                                      anomaly_score |-> anomaly_score,
                                      risk_score |-> predict_single_risk(anomaly_score),
                                      is_anomaly |-> prediction = -1]]
          IN  CASE Fit(self, names) = "ok" -> {computed}
                [] Fit(self, names) = "names" -> {failed, computed}
                [] OTHER -> {failed}

\* a path with no file
NoFile == [exists |-> FALSE, data |-> EmptyDict]

\* the model_data dict of save_model, as joblib writes it
ModelData(self) ==
    [model |-> self.model,
     scaler |-> self.scaler,
     feature_columns |-> self.feature_columns,
     contamination |-> self.contamination,
     n_estimators |-> self.n_estimators,
     random_state |-> self.random_state,
     training_info |-> self.training_info,
     is_trained |-> self.is_trained]

\* save_model without its is_trained test
IsolationForestDetector_save_model_unchecked(self, file) ==
    [raised |-> FALSE, file |-> [exists |-> TRUE, data |-> ModelData(self)]]

\* IsolationForestDetector.save_model; value [raised, file]
IsolationForestDetector_save_model(self, file) ==
    IF ~self.is_trained
    THEN [raised |-> TRUE, file |-> file]
    ELSE [raised |-> FALSE, file |-> [exists |-> TRUE, data |-> ModelData(self)]]

\* a load_model that keeps the column list of a detector that has one
IsolationForestDetector_load_model_keep_columns(self, file) ==
    IF ~file.exists
    THEN [raised |-> TRUE, self |-> self]
    ELSE
      LET model_data == file.data
      IN  [raised |-> FALSE,
           self |-> [self EXCEPT
                       !.model = model_data["model"],
                       !.scaler = model_data["scaler"],
                       !.feature_columns = IF self.feature_columns.is_none
                                           THEN model_data["feature_columns"]
                                           ELSE self.feature_columns,
                       !.contamination = DictGet(model_data, "contamination", 10),
                       !.n_estimators = DictGet(model_data, "n_estimators", 100),
                       !.random_state = DictGet(model_data, "random_state", 42),
                       !.training_info = DictGet(model_data, "training_info", EmptyDict),
                       !.is_trained = DictGet(model_data, "is_trained", TRUE)]]

\* a load_model that clears the detector before it looks for the file
IsolationForestDetector_load_model_clearing(self, file) ==
    IF ~file.exists
    THEN [raised |-> TRUE,
          self |-> [self EXCEPT !.is_trained = FALSE, !.feature_columns = NoColumns]]
    ELSE
      LET model_data == file.data
      IN  [raised |-> FALSE,
           self |-> [self EXCEPT
                       !.model = model_data["model"],
                       !.scaler = model_data["scaler"],
                       !.feature_columns = model_data["feature_columns"],
                       !.contamination = DictGet(model_data, "contamination", 10),
                       !.n_estimators = DictGet(model_data, "n_estimators", 100),
                       !.random_state = DictGet(model_data, "random_state", 42),
                       !.training_info = DictGet(model_data, "training_info", EmptyDict),
                       !.is_trained = DictGet(model_data, "is_trained", TRUE)]]

\* IsolationForestDetector.load_model; value [raised, self]
IsolationForestDetector_load_model(self, file) ==
    IF ~file.exists
    THEN [raised |-> TRUE, self |-> self]
    ELSE
      LET model_data == file.data
      IN  [raised |-> FALSE,
           self |-> [self EXCEPT
                       !.model = model_data["model"],
                       !.scaler = model_data["scaler"],
                       !.feature_columns = model_data["feature_columns"],
                       !.contamination = DictGet(model_data, "contamination", 10),
                       !.n_estimators = DictGet(model_data, "n_estimators", 100),
                       !.random_state = DictGet(model_data, "random_state", 42),
                       !.training_info = DictGet(model_data, "training_info", EmptyDict),
                       !.is_trained = DictGet(model_data, "is_trained", TRUE)]]

\* the paths model files are written to, and all paths they are read from
SavePaths == {"models/isolation_forest.pkl"}

Paths == SavePaths \cup {"models/missing.pkl"}

NoFiles == [path \in Paths |-> NoFile]

\* two detectors, the first with the default hyperparameters
NewDetectors ==
    [d \in {"first", "second"} |->
        IF d = "first" THEN IsolationForestDetector_init(10, 100, 0, 42)
        ELSE IsolationForestDetector_init(5, 50, 64, 42)]

TableRow(ticker, date, a, b, c) ==
    [col \in {"ticker", "date", "a", "b", "c"} |->
        CASE col = "ticker" -> ticker [] col = "date" -> date
          [] col = "a" -> a [] col = "b" -> b [] OTHER -> c]

\* tables to train on: ticker, date and the features a and b
TrainingTables ==
    {[columns |-> <<"ticker", "date", "a", "b">>,
      rows |-> <<TableRow(1, 1, 1, 2, 0), TableRow(1, 2, 3, 2, 0), TableRow(1, 3, 8, 5, 0)>>],
     [columns |-> <<"ticker", "date", "a", "b">>,
      rows |-> <<TableRow(2, 1, 4, 4, 0), TableRow(2, 2, 6, 0, 0)>>]}

\* the feature_columns argument of train: None, a reordering, and a list
\* naming a column the tables lack
ColumnArguments ==
    {NoColumns, SomeColumns(<<"b", "a">>), SomeColumns(<<"a", "c">>)}

\* batches to predict on: every column, and a batch without b
Batches ==
    {[columns |-> <<"ticker", "date", "a", "b", "c">>,
      rows |-> <<TableRow(1, 4, 2, 2, 1), TableRow(1, 5, 9, 7, 3), TableRow(2, 4, 4, 1, 0)>>],
     [columns |-> <<"ticker", "date", "a">>,
      rows |-> <<TableRow(1, 4, 2, 0, 0)>>]}

\* the Series handed to predict_single: a row of a batch, under its columns
FeatureRows ==
    {[col \in Range(b.columns) |-> b.rows[r][col]] : b \in Batches, r \in 1..1}

----------------------------------------------------------------------------
(* State machine *)

NoScorer ==
    [constructed |-> FALSE,
     volume_detector |-> [window_days |-> 30, spike_threshold |-> 20],
     price_detector |-> [window_days |-> 30, z_score_threshold |-> 20],
     ml_detector |-> "None", feature_engineer |-> FALSE, ml_enabled |-> FALSE,
     ml_error |-> "None",
     weights |-> [volume |-> 0, price |-> 0, social |-> 0, ml |-> 0]]

NoPrevious == [is_none |-> TRUE, rows |-> <<>>]

Init ==
    /\ scorer = NoScorer
    /\ op = "idle"
    /\ args = EmptyDict
    /\ stock_data = <<>>
    /\ previous_data = NoPrevious
    /\ frame = EmptyDict
    /\ outcome = "none"
    /\ result = EmptyDict
    /\ detectors = NewDetectors
    /\ files = NoFiles
    /\ fitted = NothingFitted
    /\ earlier = NoEarlier

\* scorer = RiskScorer(ml_model_path, use_ml)
NewRiskScorer ==
    /\ op = "idle"
    /\ ~scorer.constructed
    /\ \E env \in ModelEnvs, ml_model_path \in {"None", "given"}, use_ml \in BOOLEAN :
          /\ scorer' = RiskScorer_init(env, ml_model_path, use_ml)
          /\ args' = [env |-> env, ml_model_path |-> ml_model_path, use_ml |-> use_ml]
    /\ fitted' \in IF scorer'.ml_enabled THEN FittedModels ELSE {NothingFitted}
    /\ earlier' = NoEarlier
    /\ op' = "RiskScorer"
    /\ outcome' = "returned"
    /\ UNCHANGED <<stock_data, previous_data, frame, result, detectors, files>>

\* result = scorer.calculate_risk_score(stock_data, ticker)
CalculateRiskScore ==
    /\ op = "idle"
    /\ scorer.constructed
    /\ \E data \in SeriesInputs :
          LET mlenv == Answer(fitted, data)
              r == calculate_risk_score(scorer, data, "TICKER", mlenv)
          IN  /\ stock_data' = data
              /\ args' = [ticker |-> "TICKER", mlenv |-> mlenv]
              /\ scorer' = r.self
              /\ frame' = r.frame
              /\ outcome' = IF r.raised THEN "raised" ELSE "returned"
              /\ result' = IF r.raised THEN EmptyDict ELSE r.value
    /\ op' = "calculate_risk_score"
    /\ UNCHANGED <<previous_data, detectors, files, fitted, earlier>>

\* result = VolumeSpikeDetector(30, 2.0).detect(stock_data)
VolumeDetect ==
    /\ op = "idle"
    /\ \E data \in SeriesInputs :
          /\ stock_data' = data
          /\ result' = VolumeSpikeDetector_detect(data, 30, 20)
    /\ op' = "VolumeSpikeDetector.detect"
    /\ outcome' = "returned"
    /\ UNCHANGED <<scorer, args, previous_data, frame, detectors, files, fitted, earlier>>

\* result = VolumeSpikeDetector(30, 2.0).detect_realtime(stock_data, previous_data)
VolumeDetectRealtime ==
    /\ op = "idle"
    /\ \E data \in SeriesInputs, previous \in PreviousInputs :
          LET r == VolumeSpikeDetector_detect_realtime(data, previous, 30, 20)
          IN  /\ stock_data' = data
              /\ previous_data' = previous
              /\ outcome' = IF r.raised THEN "raised" ELSE "returned"
              /\ result' = IF r.raised THEN EmptyDict ELSE r.value
    /\ op' = "VolumeSpikeDetector.detect_realtime"
    /\ UNCHANGED <<scorer, args, frame, detectors, files, fitted, earlier>>

\* result = PriceAnomalyDetector(30, 2.0).detect(stock_data)
PriceDetect ==
    /\ op = "idle"
    /\ \E data \in SeriesInputs :
          /\ stock_data' = data
          /\ result' = PriceAnomalyDetector_detect(data, 30, 20)
    /\ op' = "PriceAnomalyDetector.detect"
    /\ outcome' = "returned"
    /\ UNCHANGED <<scorer, args, previous_data, frame, detectors, files, fitted, earlier>>

\* result = PriceAnomalyDetector(30, 2.0).detect_multiple_indicators(stock_data)
PriceDetectMultipleIndicators ==
    /\ op = "idle"
    /\ \E data \in SeriesInputs :
          /\ stock_data' = data
          /\ result' = detect_multiple_indicators(data, 30, 20)
    /\ op' = "PriceAnomalyDetector.detect_multiple_indicators"
    /\ outcome' = "returned"
    /\ UNCHANGED <<scorer, args, previous_data, frame, detectors, files, fitted, earlier>>

\* the caller is done with the returned value (the engine keeps none of it)
\* and is ready for its next call
Discard ==
    /\ op # "idle"
    /\ op' = "idle"
    /\ args' = EmptyDict
    /\ stock_data' = <<>>
    /\ previous_data' = NoPrevious
    /\ frame' = EmptyDict
    /\ outcome' = "none"
    /\ result' = EmptyDict
    /\ UNCHANGED <<scorer, detectors, files, fitted, earlier>>

Next ==
    \/ NewRiskScorer
    \/ CalculateRiskScore
    \/ Discard

\* the scorer on series: construction and scoring calls
Spec == Init /\ [][Next]_vars

NextDetectors ==
    \/ VolumeDetect
    \/ VolumeDetectRealtime
    \/ PriceDetect
    \/ PriceDetectMultipleIndicators
    \/ Discard

\* the two detectors called on their own
SpecDetectors == Init /\ [][NextDetectors]_vars

----------------------------------------------------------------------------
(* The fusion over every pair of detector scores *)

\* what VolumeSpikeDetector.detect may return to the scorer, one result for
\* each score; with spike_threshold 2.0 the result is suspicious from score 50
VolumeResults ==
    {[is_suspicious |-> v >= 50, risk_score |-> v,
      message |-> Volume_generate_message(v), details |-> EmptyDict] : v \in 0..100}

\* what detect_multiple_indicators may return to the scorer, one result for
\* each score
PriceResults ==
    {[is_suspicious |-> p >= 60, risk_score |-> p,
      message |-> Price_generate_message(p), details |-> EmptyDict] : p \in 0..100}

\* the ML environments of the fusion: a failure, or one of two anomaly scores
FusionMlEnvs ==
    {e \in MlEnvs : (e.extract = "ok" /\ e.predict = "ok") => e.anomaly_score \in {-75, 20}}

\* a scorer built without a model and one built on a trained bundle
InitFusion ==
    /\ scorer \in {RiskScorer_init(env, "None", TRUE) :
                     env \in {e \in ModelEnvs : e.ML_AVAILABLE /\ e.bundle = "trained"}}
    /\ op = "idle"
    /\ args = EmptyDict
    /\ stock_data = <<>>
    /\ previous_data = NoPrevious
    /\ frame = EmptyDict
    /\ outcome = "none"
    /\ result = EmptyDict
    /\ detectors = NewDetectors
    /\ files = NoFiles
    /\ fitted = NothingFitted
    /\ earlier = NoEarlier

\* calculate_risk_score on a series of 30 rows whose detector results are
\* volume_result and price_result
CalculateRiskScoreOn ==
    /\ op = "idle"
    /\ scorer.constructed
    /\ \E volume_result \in VolumeResults, price_result \in PriceResults,
          mlenv \in FusionMlEnvs \cap MlEnvsFor(scorer) :
          LET data == Series(30, 100, 100, 0, 3, 3)
              r == assess(scorer, "TICKER", volume_result, price_result,
                          get_ml_score(scorer, data, mlenv))
          IN  /\ args' = [ticker |-> "TICKER", mlenv |-> mlenv]
              /\ scorer' = r.self
              /\ frame' = r.frame
              /\ outcome' = IF r.raised THEN "raised" ELSE "returned"
              /\ result' = IF r.raised THEN EmptyDict ELSE r.value
    /\ op' = "calculate_risk_score"
    /\ UNCHANGED <<stock_data, previous_data, detectors, files, fitted, earlier>>

NextFusion ==
    \/ CalculateRiskScoreOn
    \/ Discard

SpecFusion == InitFusion /\ [][NextFusion]_vars

----------------------------------------------------------------------------
(* The anomaly model on its own *)

\* result = detectors[self].train(training_data, feature_columns)
Train ==
    /\ op = "idle"
    /\ \E self \in DOMAIN detectors, training_data \in TrainingTables,
          feature_columns \in ColumnArguments :
          LET r == IsolationForestDetector_train(detectors[self], training_data,
                                                 feature_columns)
          IN  /\ args' = [self |-> self, training_data |-> training_data,
                          feature_columns |-> feature_columns]
              /\ detectors' = [detectors EXCEPT ![self] = r.self]
              /\ outcome' = IF r.raised THEN "raised" ELSE "returned"
              /\ result' = r.training_info
    /\ op' = "IsolationForestDetector.train"
    /\ UNCHANGED <<scorer, stock_data, previous_data, frame, files, fitted, earlier>>

\* result = detectors[self].predict(data)
Predict ==
    /\ op = "idle"
    /\ \E self \in DOMAIN detectors, data \in Batches :
          \E r \in IsolationForestDetector_predict(detectors[self], data) :
              /\ args' = [self |-> self, data |-> data]
              /\ outcome' = IF r.raised THEN "raised" ELSE "returned"
              /\ result' = r.rows
    /\ op' = "IsolationForestDetector.predict"
    /\ UNCHANGED <<scorer, stock_data, previous_data, frame, detectors, files, fitted, earlier>>

\* result = detectors[self].predict_single(features)
PredictSingle ==
    /\ op = "idle"
    /\ \E self \in DOMAIN detectors, features \in FeatureRows :
          \E r \in IsolationForestDetector_predict_single(detectors[self], features) :
              /\ args' = [self |-> self, features |-> features]
              /\ outcome' = IF r.raised THEN "raised" ELSE "returned"
              /\ result' = r.value
    /\ op' = "IsolationForestDetector.predict_single"
    /\ UNCHANGED <<scorer, stock_data, previous_data, frame, detectors, files, fitted, earlier>>

\* detectors[self].save_model(filepath)
SaveModel ==
    /\ op = "idle"
    /\ \E self \in DOMAIN detectors, filepath \in SavePaths :
          LET r == IsolationForestDetector_save_model(detectors[self], files[filepath])
          IN  /\ args' = [self |-> self, filepath |-> filepath]
              /\ files' = [files EXCEPT ![filepath] = r.file]
              /\ outcome' = IF r.raised THEN "raised" ELSE "returned"
    /\ op' = "IsolationForestDetector.save_model"
    /\ result' = EmptyDict
    /\ UNCHANGED <<scorer, stock_data, previous_data, frame, detectors, fitted, earlier>>

\* detectors[self].load_model(filepath)
LoadModel ==
    /\ op = "idle"
    /\ \E self \in DOMAIN detectors, filepath \in Paths :
          LET r == IsolationForestDetector_load_model(detectors[self], files[filepath])
          IN  /\ args' = [self |-> self, filepath |-> filepath]
              /\ detectors' = [detectors EXCEPT ![self] = r.self]
              /\ outcome' = IF r.raised THEN "raised" ELSE "returned"
    /\ op' = "IsolationForestDetector.load_model"
    /\ result' = EmptyDict
    /\ UNCHANGED <<scorer, stock_data, previous_data, frame, files, fitted, earlier>>

NextModel ==
    \/ Train
    \/ Predict
    \/ PredictSingle
    \/ SaveModel
    \/ LoadModel
    \/ Discard

\* the anomaly model: training, persistence and prediction
SpecModel == Init /\ [][NextModel]_vars

----------------------------------------------------------------------------
(* The volume detector over the steps of its scale *)

\* series of 30 and 31 days whose close never moves: V shares on each day
\* before the last, W on the last
VolumeSeries ==
    {Series(n, 100, 100, 0, V, W) : n \in {30, 31}, V \in 1..20, W \in 0..60}

\* spike_threshold of the constructor, in tenths; 2.0 is the default
SpikeThresholds == {15, 20, 30}

VolumeDetectWith ==
    /\ op = "idle"
    /\ \E data \in VolumeSeries, spike_threshold \in SpikeThresholds :
          /\ stock_data' = data
          /\ args' = [window_days |-> 30, spike_threshold |-> spike_threshold]
          /\ result' = VolumeSpikeDetector_detect(data, 30, spike_threshold)
    /\ op' = "VolumeSpikeDetector.detect"
    /\ outcome' = "returned"
    /\ UNCHANGED <<scorer, previous_data, frame, detectors, files, fitted, earlier>>

NextVolume == VolumeDetectWith \/ Discard

SpecVolume == Init /\ [][NextVolume]_vars

----------------------------------------------------------------------------
(* The price detector over series that swing *)

\* n days whose close alternates between 20 and high, the day before the
\* last closing at 20 and the last at last
Zigzag(n, high, last) ==
    [i \in 1..n |-> [Close |-> IF i = n THEN last
                               ELSE IF (n - 1 - i) % 2 = 0 THEN 20 ELSE high,
                     Volume |-> 3]]

\* series shorter than the window, of the window's length and longer; every
\* daily return is a whole percent
PriceSeries ==
    {Zigzag(n, high, last) :
        n \in {20, 30, 31, 32, 40}, high \in {25, 40}, last \in 8..60}

PriceDetectMultipleIndicatorsOn ==
    /\ op = "idle"
    /\ \E data \in PriceSeries :
          /\ stock_data' = data
          /\ result' = detect_multiple_indicators(data, 30, 20)
    /\ op' = "PriceAnomalyDetector.detect_multiple_indicators"
    /\ outcome' = "returned"
    /\ UNCHANGED <<scorer, args, previous_data, frame, detectors, files, fitted, earlier>>

NextPrice == PriceDetectMultipleIndicators \/ PriceDetectMultipleIndicatorsOn \/ Discard

SpecPrice == Init /\ [][NextPrice]_vars

----------------------------------------------------------------------------
(* predict_single over the whole range of anomaly scores *)

\* the largest magnitude of an anomaly score drawn, in hundredths
MaxAnomaly == 150

\* predict_single on a trained detector whose ensemble scores the sample
\* anomaly_score and labels it prediction
PredictSingleScoring ==
    /\ op = "idle"
    /\ \E anomaly_score \in (-MaxAnomaly)..MaxAnomaly, prediction \in {-1, 1} :
          LET mlenv == [extract |-> "ok", predict |-> "ok",
                        anomaly_score |-> anomaly_score, prediction |-> prediction]
              r == predict_single("trained", mlenv)
          IN  /\ args' = [mlenv |-> mlenv]
              /\ outcome' = IF r.raised THEN "raised" ELSE "returned"
              /\ result' = r
    /\ op' = "predict_single"
    /\ UNCHANGED <<scorer, stock_data, previous_data, frame, detectors, files, fitted, earlier>>

NextSingle == PredictSingleScoring \/ Discard

SpecSingle == Init /\ [][NextSingle]_vars

----------------------------------------------------------------------------
(* Batch prediction on trained detectors *)

\* the most rows of a batch
MaxBatch == 3

\* the rows a batch is made of
BatchRows == {TableRow(1, 4, a, b, 0) : a \in {1, 2, 3, 9}, b \in {2, 5}}

\* the batches of one to MaxBatch rows, rows repeated included
PredictBatches ==
    UNION {{[columns |-> <<"ticker", "date", "a", "b", "c">>, rows |-> rows] :
              rows \in [1..n -> BatchRows]} : n \in 1..MaxBatch}

\* the two detectors, each trained on one of the tables
InitPredict ==
    /\ scorer = NoScorer
    /\ op = "idle"
    /\ args = EmptyDict
    /\ stock_data = <<>>
    /\ previous_data = NoPrevious
    /\ frame = EmptyDict
    /\ outcome = "none"
    /\ result = EmptyDict
    /\ files = NoFiles
    /\ fitted = NothingFitted
    /\ earlier = NoEarlier
    /\ detectors \in
          {[first |-> IsolationForestDetector_train(NewDetectors["first"], t1,
                                                    NoColumns).self,
            second |-> IsolationForestDetector_train(NewDetectors["second"], t2,
                                                     SomeColumns(<<"b", "a">>)).self] :
              t1 \in TrainingTables, t2 \in TrainingTables}

PredictOn ==
    /\ op = "idle"
    /\ \E self \in DOMAIN detectors, data \in PredictBatches :
          \E r \in IsolationForestDetector_predict(detectors[self], data) :
              /\ args' = [self |-> self, data |-> data]
              /\ outcome' = IF r.raised THEN "raised" ELSE "returned"
              /\ result' = r.rows
    /\ op' = "IsolationForestDetector.predict"
    /\ UNCHANGED <<scorer, stock_data, previous_data, frame, detectors, files, fitted, earlier>>

NextPredict == PredictOn \/ Discard

SpecPredict == InitPredict /\ [][NextPredict]_vars

----------------------------------------------------------------------------
(* The scorer over several tickers *)

MaxTickers == 3

Tickers == {"AAA", "BBB", "CCC"}

\* a quiet series, a pump on the last day, a milder one over 31 days and a
\* series one day short of the window
BatchSeries ==
    {Series(30, 100, 100, 0, 3, 3), Series(30, 100, 122, 1, 3, 58),
     Series(31, 100, 122, 1, 3, 9), Series(29, 100, 122, 1, 3, 3)}

BatchFrames == {NoFrame} \cup {Frame(data) : data \in BatchSeries}

\* the dicts of up to MaxTickers tickers, in every insertion order
StockDataDicts ==
    UNION {{d \in [1..n -> [ticker : Tickers, data : BatchFrames]] :
              \A i, j \in 1..n : i < j => d[i].ticker # d[j].ticker} :
           n \in 0..MaxTickers}

Thresholds == {0, 40, 60, 64}

\* the attached models of the batch runs
BatchModels ==
    {model \in FittedModels :
        /\ model["flat"].predict = "ok"
        /\ model["moving"].predict = "ok" =>
              (model["moving"].prediction = -1 /\ model["moving"].anomaly_score \in {-75, 20})}

\* a scorer built without a model, and one built on a trained bundle
InitBatch ==
    /\ scorer \in {RiskScorer_init(env, "None", TRUE) :
                     env \in {e \in ModelEnvs : e.ML_AVAILABLE /\ e.bundle = "trained"}}
    /\ fitted \in IF scorer.ml_enabled THEN BatchModels ELSE {NothingFitted}
    /\ op = "idle"
    /\ args = EmptyDict
    /\ stock_data = <<>>
    /\ previous_data = NoPrevious
    /\ frame = EmptyDict
    /\ outcome = "none"
    /\ result = EmptyDict
    /\ detectors = NewDetectors
    /\ files = NoFiles
    /\ earlier = NoEarlier

BatchCalculateRisk ==
    /\ op = "idle"
    /\ scorer.constructed
    /\ \E stock_data_dict \in StockDataDicts :
          LET r == batch_calculate_risk(scorer, stock_data_dict, fitted)
          IN  /\ args' = [stock_data_dict |-> stock_data_dict]
              /\ scorer' = r.self
              /\ result' = r.results
    /\ op' = "batch_calculate_risk"
    /\ outcome' = "returned"
    /\ UNCHANGED <<stock_data, previous_data, frame, detectors, files, fitted, earlier>>

\* get_high_risk_stocks on the results that batch_calculate_risk has just
\* returned
GetHighRiskStocks ==
    /\ op = "batch_calculate_risk"
    /\ \E threshold \in Thresholds :
          LET r == get_high_risk_stocks(result, threshold)
          IN  /\ args' = [results |-> result, threshold |-> threshold]
              /\ frame' = [results |-> r.results]
              /\ result' = r.high_risk
    /\ op' = "get_high_risk_stocks"
    /\ outcome' = "returned"
    /\ UNCHANGED <<scorer, stock_data, previous_data, detectors, files, fitted, earlier>>

NextBatch == BatchCalculateRisk \/ GetHighRiskStocks \/ Discard

SpecBatch == InitBatch /\ [][NextBatch]_vars

----------------------------------------------------------------------------
(* The scorer called again and again *)

\* calculate_risk_score on one of the series of the batches; the first call
\* of a scorer and what it returned are remembered in earlier
CalculateRiskScoreAgain ==
    /\ op = "idle"
    /\ scorer.constructed
    /\ \E data \in BatchSeries :
          LET mlenv == Answer(fitted, data)
              r == calculate_risk_score(scorer, data, "TICKER", mlenv)
          IN  /\ stock_data' = data
              /\ args' = [ticker |-> "TICKER", mlenv |-> mlenv]
              /\ scorer' = r.self
              /\ frame' = r.frame
              /\ outcome' = IF r.raised THEN "raised" ELSE "returned"
              /\ result' = IF r.raised THEN EmptyDict ELSE r.value
              /\ earlier' = IF r.raised
                             THEN earlier
                             ELSE IF earlier.scored
                             THEN [earlier EXCEPT !.failed =
                                      @ \/ (scorer.ml_enabled
                                            /\ ~r.frame.ml_result.ml_available)]
                             ELSE [scored |-> TRUE, data |-> data, result |-> r.value,
                                   failed |-> FALSE]
    /\ op' = "calculate_risk_score"
    /\ UNCHANGED <<previous_data, detectors, files, fitted>>

NextRepeat == NewRiskScorer \/ CalculateRiskScoreAgain \/ Discard

SpecRepeat == Init /\ [][NextRepeat]_vars

----------------------------------------------------------------------------
(* The scorer with a model at its most alarmed *)

\* a fitted model that finds every series as anomalous as can be: anomaly
\* scores at and below -1.00, where predict_single gives its highest risk
MostAnomalous ==
    {[extract |-> "ok", predict |-> "ok", anomaly_score |-> a, prediction |-> -1] :
        a \in {-100, -120}}

\* result = scorer.calculate_risk_score(stock_data, ticker) with such a model
CalculateRiskScoreMostAnomalous ==
    /\ op = "idle"
    /\ scorer.constructed
    /\ scorer.ml_enabled
    /\ \E data \in SeriesInputs, mlenv \in MostAnomalous :
          LET r == calculate_risk_score(scorer, data, "TICKER", mlenv)
          IN  /\ stock_data' = data
              /\ args' = [ticker |-> "TICKER", mlenv |-> mlenv]
              /\ scorer' = r.self
              /\ frame' = r.frame
              /\ outcome' = IF r.raised THEN "raised" ELSE "returned"
              /\ result' = IF r.raised THEN EmptyDict ELSE r.value
    /\ op' = "calculate_risk_score"
    /\ UNCHANGED <<previous_data, detectors, files, fitted, earlier>>

NextCeiling ==
    \/ NewRiskScorer
    \/ CalculateRiskScore
    \/ CalculateRiskScoreMostAnomalous
    \/ Discard

SpecCeiling == Init /\ [][NextCeiling]_vars

----------------------------------------------------------------------------
(* BasePipeline: extract, transform, load *)

\* the most records a stage returns
MaxRecords == 3

\* str(e) of the exceptions a stage raises; an exception may have no text
StageErrors == {"", "connection refused"}

\* what a call of extract or transform does: raise, or return a list of
\* zero to MaxRecords records
ListStages ==
    {[raises |-> TRUE, e |-> e, returns |-> <<>>] : e \in StageErrors}
      \cup {[raises |-> FALSE, e |-> "", returns |-> [i \in 1..n |-> i]] : n \in 0..MaxRecords}

\* what a call of load does: raise, or return True or False
LoadStages ==
    {[raises |-> TRUE, e |-> e, returns |-> FALSE] : e \in StageErrors}
      \cup {[raises |-> FALSE, e |-> "", returns |-> b] : b \in BOOLEAN}

\* datetime.now() at the start of run, in milliseconds
StartTimes == {0, 1000}

\* the milliseconds run takes; none of them is half a hundredth of a second,
\* where round() follows the binary value of the float
Elapsed == {0, 4, 16, 1237}

PipelineNames == {"stock_data", "social_media"}

\* datetime.isoformat(): a string, never the datetime itself
isoformat(t) == <<"iso", t \div 1000, t % 1000>>

\* round(duration, 2) of a duration in milliseconds, in hundredths
round2(ms) == (ms + 5) \div 10

metrics_at_start(self, start_time) ==
    [pipeline |-> self.name,
     start_time |-> isoformat(start_time),
     success |-> FALSE,
     records_extracted |-> 0,
     records_transformed |-> 0,
     records_loaded |-> 0,
     duration_seconds |-> 0,
     errors |-> <<>>]

\* except Exception as e
on_exception(metrics, e) ==
    [metrics EXCEPT !.errors = Append(@, e), !.success = FALSE]

after_load_silent(metrics, transformed_data, success) ==
    [metrics EXCEPT !.records_loaded = IF success THEN Len(transformed_data) ELSE 0,
                    !.success = success]

\* the lines after self.load returned
after_load(metrics, transformed_data, success) ==
    LET loaded == [metrics EXCEPT
                     !.records_loaded = IF success THEN Len(transformed_data) ELSE 0,
                     !.success = success]
    IN  IF success
        THEN loaded
        ELSE [loaded EXCEPT !.errors = Append(@, "Load stage failed")]

\* the try block of run with its except clause: the metrics it leaves and the
\* stages it called, in the order of the calls
run_try(metrics, extract, transform, load) ==
    IF extract.raises
    THEN [metrics |-> on_exception(metrics, extract.e), called |-> <<"extract">>]
    ELSE
    LET raw_data == extract.returns
        extracted == [metrics EXCEPT !.records_extracted = Len(raw_data)]
    IN  IF raw_data = <<>>
        THEN [metrics |-> [extracted EXCEPT
                             !.errors = Append(@, "No data extracted from source")],
              called |-> <<"extract">>]
        ELSE
        IF transform.raises
        THEN [metrics |-> on_exception(extracted, transform.e),
              called |-> <<"extract", "transform">>]
        ELSE
        LET transformed_data == transform.returns
            transformed == [extracted EXCEPT
                              !.records_transformed = Len(transformed_data)]
        IN  IF transformed_data = <<>>
            THEN [metrics |-> [transformed EXCEPT
                                 !.errors = Append(@, "All records filtered out during transformation")],
                  called |-> <<"extract", "transform">>]
            ELSE
            IF load.raises
            THEN [metrics |-> on_exception(transformed, load.e),
                  called |-> <<"extract", "transform", "load">>]
            ELSE [metrics |-> after_load(transformed, transformed_data, load.returns),
                  called |-> <<"extract", "transform", "load">>]

\* the finally block of run
run_finally(metrics, start_time, end_time) ==
    [metrics EXCEPT !.duration_seconds = round2(end_time - start_time)]
      @@ [end_time |-> isoformat(end_time), timestamp |-> isoformat(end_time)]

BasePipeline_run(self, start_time, end_time, extract, transform, load) ==
    LET tried == run_try(metrics_at_start(self, start_time), extract, transform, load)
    IN  [raised |-> FALSE,
         metrics |-> run_finally(tried.metrics, start_time, end_time),
         called |-> tried.called]

\* result holds the metrics run returned and the stages it called
Run ==
    /\ op = "idle"
    /\ \E name \in PipelineNames, start_time \in StartTimes, elapsed \in Elapsed,
          extract \in ListStages, transform \in ListStages, load \in LoadStages :
          LET r == BasePipeline_run([name |-> name], start_time, start_time + elapsed,
                                    extract, transform, load)
          IN  /\ args' = [self |-> [name |-> name], start_time |-> start_time,
                          end_time |-> start_time + elapsed, extract |-> extract,
                          transform |-> transform, load |-> load]
              /\ outcome' = IF r.raised THEN "raised" ELSE "returned"
              /\ result' = [metrics |-> r.metrics, called |-> r.called]
    /\ op' = "BasePipeline.run"
    /\ UNCHANGED <<scorer, stock_data, previous_data, frame, detectors, files, fitted, earlier>>

NextPipeline == Run \/ Discard

SpecPipeline == Init /\ [][NextPipeline]_vars

----------------------------------------------------------------------------
(* Properties of the fusion *)

\* a scoring call has returned its assessment
Scored == op = "calculate_risk_score" /\ outcome = "returned"

\* the weighted sum of the call, in ten-thousandths of a point, from the
\* sub-scores and the weights the call used (the social score is 0)
FrameSum ==
    10 * frame.volume_result.risk_score * frame.effective_weights.volume
    + 10 * frame.price_result.risk_score * frame.effective_weights.price
    + frame.ml_result.ml_score * frame.effective_weights.ml

\* C1 as the specification states it: the final score is the weighted sum of
\* the sub-scores over the effective weights rounded to the nearest integer
\* (82.7 gives 83).
C1_RoundedToNearest ==
    Scored => 2 * Abs(10000 * result.risk_score - FrameSum) <= 10000

\* C1, amended: the final score is the weighted sum of the sub-scores over
\* the effective weights with its fraction dropped (82.7 gives 82): the
\* largest integer that does not exceed the sum.
C1_Truncated ==
    Scored => /\ 10000 * result.risk_score <= FrameSum
              /\ FrameSum < 10000 * (result.risk_score + 1)

\* volume 100 and price 95 under the weights 0.39 and 0.46: the sum is 82.7
\* and the score 82
C1_Witness ==
    /\ Scored
    /\ frame.volume_result.risk_score = 100
    /\ frame.price_result.risk_score = 95
    /\ FrameSum = 827000
    /\ result.risk_score = 82

\* a problem of the model at construction, as the constructor's caller sees
\* it: the ML modules do not import, no bundle is where it is looked for, or
\* the bundle does not load
ConstructionProblem ==
    \/ ~args.env.ML_AVAILABLE
    \/ args.ml_model_path = "None" /\ ~args.env.default_exists
    \/ args.ml_model_path # "None" /\ ~args.env.path_exists
    \/ args.env.bundle = "corrupt"

\* feature extraction or predict_single raises in this scoring call
PredictionException ==
    /\ scorer.ml_enabled
    /\ Len(stock_data) >= 30
    /\ \/ args.mlenv.extract = "raise"
       \/ args.mlenv.predict = "raise"
       \/ scorer.ml_detector # "trained"

AssessmentKeys ==
    {"ticker", "risk_score", "risk_level", "is_suspicious", "explanation",
     "red_flags", "individual_scores", "ml_status", "details", "recommendation"}

\* C2: a problem of the model never reaches the caller. A construction with
\* ML requested and the modules missing, the bundle missing or the bundle
\* corrupt returns a scorer with ml_enabled false and the failure in
\* ml_error; a scoring call in which feature extraction or predict_single
\* raises returns a complete assessment with ML score 0, ml_status.enabled
\* false and the error text, computed from volume and price alone.
C2_ModelProblemsContained ==
    /\ op = "RiskScorer" =>
          /\ outcome = "returned"
          /\ scorer.constructed
          /\ (args.use_ml /\ ConstructionProblem) =>
                ~scorer.ml_enabled /\ scorer.ml_error # "None"
    /\ op = "calculate_risk_score" =>
          /\ outcome = "returned"
          /\ PredictionException =>
                /\ DOMAIN result = AssessmentKeys
                /\ result.individual_scores.ml_anomaly = 0
                /\ ~result.ml_status.enabled
                /\ result.ml_status.error = "ML prediction error"
                /\ result.ml_status.score = 0
                /\ result.individual_scores.volume_spike
                      = VolumeSpikeDetector_detect(stock_data, 30, 20).risk_score
                /\ result.individual_scores.price_anomaly
                      = detect_multiple_indicators(stock_data, 30, 20).risk_score
                /\ result.risk_score
                      = (result.individual_scores.volume_spike
                            * (10 * scorer.weights.volume + 4 * scorer.weights.ml)
                         + result.individual_scores.price_anomaly
                            * (10 * scorer.weights.price + 6 * scorer.weights.ml))
                        \div 1000

\* predict_single raises on a series long enough for features, and the
\* caller holds an assessment with a positive score
C2_Witness ==
    /\ Scored
    /\ scorer.ml_enabled
    /\ Len(stock_data) >= 30
    /\ args.mlenv.extract = "ok"
    /\ args.mlenv.predict = "raise"
    /\ ~result.ml_status.enabled
    /\ result.risk_score > 0

\* C3: in every scoring call the weights used sum to exactly 1: the stored
\* weights when ML is available; otherwise the ML weight is 0 and 40% of the
\* stored ML weight has gone to volume and 60% to price. This holds for both
\* weight sets the constructor produces. (Weights in thousandths.)
C3_WeightsSumToOne ==
    Scored =>
       LET w == frame.effective_weights
           s == scorer.weights
       IN  /\ w.volume + w.price + w.social + w.ml = 1000
           /\ s \in {[volume |-> 30, price |-> 35, social |-> 10, ml |-> 25],
                     [volume |-> 35, price |-> 40, social |-> 15, ml |-> 10]}
           /\ frame.ml_result.ml_available =>
                 w = [volume |-> 10 * s.volume, price |-> 10 * s.price,
                      social |-> 10 * s.social, ml |-> 10 * s.ml]
           /\ ~frame.ml_result.ml_available =>
                 /\ w.ml = 0
                 /\ w.social = 10 * s.social
                 /\ 10 * (w.volume - 10 * s.volume) = 4 * 10 * s.ml
                 /\ 10 * (w.price - 10 * s.price) = 6 * 10 * s.ml

\* the ML-enabled weight set with ML unavailable for the call: 0.40, 0.50,
\* 0.10 and 0
C3_Witness ==
    /\ Scored
    /\ scorer.weights.ml = 25
    /\ ~frame.ml_result.ml_available
    /\ frame.effective_weights = [volume |-> 400, price |-> 500, social |-> 100, ml |-> 0]

\* C4: risk_score is an integer from 0 to 100 for every pair of detector
\* scores from 0 to 100 and every ML score, under each weight configuration.
C4_ScoreInRange ==
    Scored => result.risk_score \in 0..100

\* both detectors at 100 and ML unavailable under the ML-enabled weights:
\* the largest score
C4_Witness ==
    /\ Scored
    /\ frame.volume_result.risk_score = 100
    /\ frame.price_result.risk_score = 100
    /\ ~frame.ml_result.ml_available
    /\ scorer.weights.ml = 25
    /\ result.risk_score = 90

----------------------------------------------------------------------------
(* Properties of the detectors *)

\* the rows of the last window of 30
LastWindow == (Len(stock_data) - 29)..Len(stock_data)

\* the trailing 30-day average volume is zero
AverageVolumeZero ==
    /\ Len(stock_data) >= 30
    /\ \A i \in LastWindow : stock_data[i].Volume = 0

\* the rolling standard deviation of the last 30 daily returns is undefined
\* (the first return of a series does not exist, so 30 rows give 29 returns)
\* or zero (the 30 returns are equal)
ReturnStdZeroOrUndefined ==
    /\ Len(stock_data) >= 30
    /\ \/ Len(stock_data) = 30
       \/ \A i, j \in LastWindow :
             stock_data[i].Close * stock_data[j - 1].Close
                = stock_data[j].Close * stock_data[i - 1].Close

SoftFailure(message) ==
    /\ result.risk_score = 0
    /\ ~result.is_suspicious
    /\ result.message = message

\* C6: VolumeSpikeDetector.detect and PriceAnomalyDetector.detect never
\* raise, and return risk_score 0, is_suspicious false and an explanatory
\* message whenever the series has fewer than window_days rows, or the
\* trailing average volume is zero (volume detector), or the rolling standard
\* deviation of the returns is zero or undefined (price detector).
C6_DetectFailsSoftly ==
    /\ op = "VolumeSpikeDetector.detect" =>
          /\ outcome = "returned"
          /\ Len(stock_data) < 30 => SoftFailure("Insufficient data")
          /\ AverageVolumeZero => SoftFailure("Invalid volume data")
    /\ op = "PriceAnomalyDetector.detect" =>
          /\ outcome = "returned"
          /\ Len(stock_data) < 30 => SoftFailure("Insufficient data")
          /\ ReturnStdZeroOrUndefined => SoftFailure("Invalid price data")

\* the volume detector on 29 rows whose last volume is 58 after 28 days at 3
C6_Witness ==
    /\ op = "VolumeSpikeDetector.detect"
    /\ Len(stock_data) = 29
    /\ stock_data[28].Volume = 3
    /\ stock_data[29].Volume = 58
    /\ SoftFailure("Insufficient data")

\* C7 as the specification states it: on a series of fewer than window_days
\* rows detect_multiple_indicators returns risk_score 0 and is_suspicious
\* false, and calculate_risk_score a final score of 0.
C7_ShortSeriesScoresZero ==
    (Scored /\ Len(stock_data) < 30) =>
       /\ frame.price_result.risk_score = 0
       /\ ~frame.price_result.is_suspicious
       /\ result.risk_score = 0

\* C8 as the specification states it: on a series of fewer than window_days
\* rows detect_realtime returns risk_score 0 and is_suspicious false,
\* whatever previous_data is.
C8_RealtimeShortSeriesZero ==
    (op = "VolumeSpikeDetector.detect_realtime" /\ outcome = "returned"
        /\ Len(stock_data) < 30) =>
       /\ result.risk_score = 0
       /\ ~result.is_suspicious

----------------------------------------------------------------------------
(* The end-to-end scenarios *)

\* 40 days, the first 39 flat, the last with a return of +22% and a volume
\* 12 times the 30-day moving average of volume (the average the detector
\* forms, over the last 30 days)
PumpScenario ==
    /\ Len(stock_data) = 40
    /\ \A i \in 1..39 : stock_data[i] = stock_data[1]
    /\ stock_data[1].Volume > 0
    /\ 100 * stock_data[40].Close = 122 * stock_data[39].Close
    /\ 30 * stock_data[40].Volume
          = 12 * (29 * stock_data[39].Volume + stock_data[40].Volume)

RedFlags == {result.red_flags[i] : i \in DOMAIN result.red_flags}

\* C9: on the pump scenario a scorer with no model attached returns volume
\* sub-score 100, a final score of at least 80, level EXTREME, is_suspicious
\* true, and red flags that include the extreme-volume flag, the
\* extreme-price flag and the combined pump-and-dump flag.
C9_PumpScenario ==
    (Scored /\ PumpScenario /\ ~scorer.ml_enabled) =>
       /\ result.individual_scores.volume_spike = 100
       /\ result.risk_score >= 80
       /\ result.risk_level = "EXTREME RISK"
       /\ result.is_suspicious
       /\ {"EXTREME volume spike", "EXTREME price movement",
           "CRITICAL: Both volume AND price showing anomalies (classic pump-and-dump pattern)"}
             \subseteq RedFlags

\* the scenario scored by a scorer built with use_ml = False: 82
C9_Witness ==
    /\ Scored
    /\ PumpScenario
    /\ ~scorer.ml_enabled
    /\ scorer.ml_error = "None"
    /\ result.risk_score = 82

\* 40 days of constant price and constant volume
FlatScenario ==
    /\ Len(stock_data) = 40
    /\ \A i \in 1..40 : stock_data[i] = stock_data[1]

\* every detector and every price sub-indicator returns 0 on the series
DetectorsReturnZero ==
    /\ VolumeSpikeDetector_detect(stock_data, 30, 20).risk_score = 0
    /\ PriceAnomalyDetector_detect(stock_data, 30, 20).risk_score = 0
    /\ check_bollinger_bands(stock_data).risk_score = 0
    /\ check_rsi(stock_data).risk_score = 0
    /\ check_momentum(stock_data).risk_score = 0
    /\ result.individual_scores.volume_spike = 0
    /\ result.individual_scores.price_anomaly = 0

QuietAssessment ==
    /\ result.risk_score = 0
    /\ result.risk_level = "MINIMAL RISK"
    /\ result.explanation
          = <<"No significant anomalies detected - normal trading activity">>
    /\ result.red_flags = <<>>

----------------------------------------------------------------------------
(* Properties of the anomaly model *)

\* C11: on a detector that is not trained, predict, predict_single and
\* save_model raise instead of returning, and leave every field of every
\* detector, and the files, as they were.
C11_UntrainedRaises ==
    [][(/\ op = "idle"
        /\ op' \in {"IsolationForestDetector.predict",
                    "IsolationForestDetector.predict_single",
                    "IsolationForestDetector.save_model"}
        /\ ~detectors[args'.self].is_trained)
       => (outcome' = "raised" /\ detectors' = detectors /\ files' = files)]_vars

\* predict_single has raised on a detector that is as its constructor left it
C11_Witness ==
    /\ op = "IsolationForestDetector.predict_single"
    /\ outcome = "raised"
    /\ detectors[args.self] = NewDetectors[args.self]

\* what a bundle must bring back
RoundTripFields ==
    {"model", "scaler", "feature_columns", "contamination", "n_estimators",
     "training_info", "is_trained"}

\* C12: save_model then load_model round-trips the model state: a returned
\* save_model leaves in the file the scaler, ensemble, column order,
\* contamination, tree count, training summary and is_trained of the
\* detector, a returned load_model leaves in the detector those of the file,
\* and loading what a trained detector saves into any detector, whatever its
\* state, gives a detector with the saver's values whose predict returns what
\* the saver's predict returns on every batch.
C12_SaveLoadRoundTrip ==
    /\ (op = "IsolationForestDetector.save_model" /\ outcome = "returned") =>
          /\ files[args.filepath].exists
          /\ \A f \in RoundTripFields :
                files[args.filepath].data[f] = detectors[args.self][f]
    /\ (op = "IsolationForestDetector.load_model" /\ outcome = "returned") =>
          \A f \in RoundTripFields :
             detectors[args.self][f] = files[args.filepath].data[f]
    /\ \A saver \in DOMAIN detectors : detectors[saver].is_trained =>
          \A loader \in DOMAIN detectors :
             LET saved == IsolationForestDetector_save_model(detectors[saver], NoFile)
                 loaded == IsolationForestDetector_load_model(detectors[loader],
                                                              saved.file)
             IN  /\ ~saved.raised
                 /\ ~loaded.raised
                 /\ \A f \in RoundTripFields : loaded.self[f] = detectors[saver][f]
                 /\ \A data \in Batches :
                       IsolationForestDetector_predict(loaded.self, data)
                          = IsolationForestDetector_predict(detectors[saver], data)

\* the second detector has loaded what the first saved after training on the
\* columns b, a: it has the first's 100 trees and keeps its own max_samples
C12_Witness ==
    /\ op = "IsolationForestDetector.load_model"
    /\ outcome = "returned"
    /\ args.self = "second"
    /\ detectors["second"].is_trained
    /\ detectors["second"].n_estimators = 100
    /\ detectors["second"].max_samples = 64
    /\ detectors["second"].feature_columns = SomeColumns(<<"b", "a">>)
    /\ detectors["second"].scaler = files[args.filepath].data["scaler"]

\* C13: load_model on a path with no file raises and changes no field of
\* the detector, untrained or trained.
C13_LoadMissingFile ==
    [][(/\ op = "idle"
        /\ op' = "IsolationForestDetector.load_model"
        /\ ~files[args'.filepath].exists)
       => (outcome' = "raised" /\ detectors' = detectors /\ files' = files)]_vars

\* load_model has raised on a trained detector, which still predicts
C13_Witness ==
    /\ op = "IsolationForestDetector.load_model"
    /\ outcome = "raised"
    /\ ~files[args.filepath].exists
    /\ detectors[args.self].is_trained
    /\ \E data \in Batches :
          \E r \in IsolationForestDetector_predict(detectors[args.self], data) :
             ~r.raised

\* C14 as the specification states it: whenever is_trained is true,
\* feature_columns is the ordered column list on which the current scaler
\* and ensemble were fitted.
C14_ColumnsAreTheFittedColumns ==
    \A d \in DOMAIN detectors : detectors[d].is_trained =>
       /\ ~detectors[d].feature_columns.is_none
       /\ detectors[d].scaler.fitted
       /\ detectors[d].model.fitted
       /\ detectors[d].feature_columns.names = detectors[d].scaler.names
       /\ detectors[d].model.n_features = Len(detectors[d].feature_columns.names)



----------------------------------------------------------------------------
(* Properties of the scorer over several tickers *)

\* the entries of a results dict stored under a ticker
EntriesFor(results, ticker) == {i \in DOMAIN results : results[i].ticker = ticker}

\* the dicts that hold the same items in another insertion order
Reorderings(stock_data_dict) ==
    {d \in StockDataDicts : {d[i] : i \in DOMAIN d}
                               = {stock_data_dict[i] : i \in DOMAIN stock_data_dict}
                            /\ Len(d) = Len(stock_data_dict)}

\* C15: batch_calculate_risk returns exactly one result per ticker of the
\* dict; a ticker whose scoring raises gets the error record (risk_score 0,
\* not suspicious, no red flags, the error in the explanation) and no other
\* ticker is affected: every other result is what calculate_risk_score gives
\* for that ticker alone, in whatever order the tickers are processed.
C15_BatchIsolatesFailures ==
    op = "batch_calculate_risk" =>
        LET d == args.stock_data_dict
        IN  /\ Len(result) = Len(d)
            /\ \A i \in DOMAIN d :
                  /\ Cardinality(EntriesFor(result, d[i].ticker)) = 1
                  /\ LET entry == result[CHOOSE k \in EntriesFor(result, d[i].ticker) : TRUE].result
                         alone == calculate_risk_score_on(scorer, d[i].data, d[i].ticker, fitted)
                     IN  IF alone.raised
                         THEN /\ entry.risk_score = 0
                              /\ entry.is_suspicious = FALSE
                              /\ entry.red_flags = <<>>
                              /\ entry.explanation = <<"Error calculating risk: " \o alone.error>>
                         ELSE entry = alone.value
            /\ \A i \in DOMAIN result : \E k \in DOMAIN d : d[k].ticker = result[i].ticker
            /\ \A other \in Reorderings(d) :
                  {batch_calculate_risk(scorer, other, fitted).results[i] : i \in DOMAIN other}
                      = {result[i] : i \in DOMAIN result}

\* a batch of three tickers, one of them without data between two that score
C15_Witness ==
    /\ op = "batch_calculate_risk"
    /\ Len(result) = 3
    /\ args.stock_data_dict[2].data.is_none
    /\ result[2].result.risk_level = "ERROR"
    /\ result[1].result.risk_score >= 60
    /\ result[3].result.risk_score >= 60

\* C16: get_high_risk_stocks returns exactly the batch results whose
\* risk_score is at least the threshold, each once (as its ticker, score,
\* level and red flags), in non-increasing order of risk_score, and leaves
\* the results it was given unchanged.
C16_HighRiskFilteredAndSorted ==
    op = "get_high_risk_stocks" =>
        /\ \A i \in DOMAIN args.results :
              LET item == args.results[i]
                  listed == EntriesFor(result, item.ticker)
              IN  IF item.result.risk_score >= args.threshold
                  THEN /\ Cardinality(listed) = 1
                       /\ \A k \in listed :
                             /\ result[k].risk_score = item.result.risk_score
                             /\ result[k].risk_level = item.result.risk_level
                             /\ result[k].red_flags = item.result.red_flags
                  ELSE listed = {}
        /\ \A k \in DOMAIN result : EntriesFor(args.results, result[k].ticker) # {}
        /\ \A j, k \in DOMAIN result :
              j < k => result[j].risk_score >= result[k].risk_score
        /\ frame.results = args.results

\* three results given in increasing order of score, the lowest below the
\* threshold and one exactly on it
C16_Witness ==
    /\ op = "get_high_risk_stocks"
    /\ Len(args.results) = 3
    /\ args.results[1].result.risk_score < args.threshold
    /\ args.results[2].result.risk_score = args.threshold
    /\ args.results[3].result.risk_score > args.threshold
    /\ Len(result) = 2
    /\ result[1].ticker = args.results[3].ticker

----------------------------------------------------------------------------
(* Properties of the scorer called again and again *)

\* the parts of an assessment that a second scoring must give again
SameAssessment(a, b) ==
    /\ a.risk_score = b.risk_score
    /\ a.risk_level = b.risk_level
    /\ a.individual_scores = b.individual_scores
    /\ a.red_flags = b.red_flags

\* C17: calculate_risk_score is stateless across calls.  A scoring step
\* leaves the scorer's weights, ml_enabled, ml_error and attached model as
\* they were, and after any sequence of scoring calls, calls whose ML
\* prediction failed included, scoring the series of the first call again
\* gives the score, level, sub-scores and red flags of the first call.
C17_ScoringIsStateless ==
    [][op' = "calculate_risk_score" =>
          /\ scorer'.weights = scorer.weights
          /\ scorer'.ml_enabled = scorer.ml_enabled
          /\ scorer'.ml_error = scorer.ml_error
          /\ scorer'.ml_detector = scorer.ml_detector
          /\ fitted' = fitted
          /\ (earlier.scored /\ stock_data' = earlier.data /\ outcome' = "returned")
                => SameAssessment(result', earlier.result)]_vars

\* the series of the first call is scored again after a call on another
\* series in which the prediction failed and the weights were redistributed
C17_Witness ==
    /\ op = "calculate_risk_score"
    /\ earlier.scored
    /\ stock_data = earlier.data
    /\ earlier.failed
    /\ frame.ml_result.ml_available
    /\ frame.effective_weights.ml > 0

----------------------------------------------------------------------------
(* Properties of the volume scale *)

\* the series with one more share traded on the last day
OneMoreTraded(data) ==
    [data EXCEPT ![Len(data)].Volume = @ + 1]

\* C18: the risk score of VolumeSpikeDetector is a monotone non-decreasing
\* step function of volume_ratio (at least 10 gives 100, 5 gives 90, 4 gives
\* 80, 3 gives 70, 2.5 gives 60, 2 gives 50, 1.5 gives 30, below that 0) and
\* is_suspicious is true exactly when volume_ratio >= spike_threshold.
C18_VolumeScale ==
    (op = "VolumeSpikeDetector.detect" /\ "volume_ratio" \in DOMAIN result.details) =>
        LET num == result.details.volume_ratio[1]
            den == result.details.volume_ratio[2]
            more == VolumeSpikeDetector_detect(OneMoreTraded(stock_data), 30,
                                               result.details.threshold_used)
        IN  /\ (2 * num >= 20 * den) => result.risk_score = 100
            /\ (2 * num < 20 * den /\ 2 * num >= 10 * den) => result.risk_score = 90
            /\ (2 * num < 10 * den /\ 2 * num >= 8 * den) => result.risk_score = 80
            /\ (2 * num < 8 * den /\ 2 * num >= 6 * den) => result.risk_score = 70
            /\ (2 * num < 6 * den /\ 2 * num >= 5 * den) => result.risk_score = 60
            /\ (2 * num < 5 * den /\ 2 * num >= 4 * den) => result.risk_score = 50
            /\ (2 * num < 4 * den /\ 2 * num >= 3 * den) => result.risk_score = 30
            /\ (2 * num < 3 * den) => result.risk_score = 0
            /\ result.is_suspicious <=> (10 * num >= result.details.threshold_used * den)
            /\ more.risk_score >= result.risk_score

\* a ratio of exactly 2.5 under a threshold of 3.0: scored 60, not suspicious
C18_Witness ==
    /\ op = "VolumeSpikeDetector.detect"
    /\ "volume_ratio" \in DOMAIN result.details
    /\ 2 * result.details.volume_ratio[1] = 5 * result.details.volume_ratio[2]
    /\ result.risk_score = 60
    /\ args.spike_threshold = 30
    /\ ~result.is_suspicious

----------------------------------------------------------------------------
(* Properties of the red flags and of the explanation *)

\* the status the price detector reports for an indicator of the scored
\* series, as detect_multiple_indicators returns it
ReportedStatus(name) == result.details.price[name].status

\* C19: whenever the RSI status the price detector reports for the scored
\* series is extremely overbought or extremely oversold, red_flags contain
\* the corresponding RSI flag, and whenever the momentum status is extreme
\* or very high, red_flags contain the high-momentum flag.
C19_ExtremeIndicatorsFlagged ==
    Scored =>
        /\ ReportedStatus("rsi") = "extremely_overbought"
              => "RSI extremely overbought" \in RedFlags
        /\ ReportedStatus("rsi") = "extremely_oversold"
              => "RSI extremely oversold" \in RedFlags
        /\ ReportedStatus("momentum") \in {"extreme_momentum", "very_high_momentum"}
              => "High price momentum" \in RedFlags

Segments == {result.explanation[i] : i \in DOMAIN result.explanation}

GenericMessages ==
    {"Multiple weak signals detected - monitor for further activity",
     "No significant anomalies detected - normal trading activity"}

\* the segments owed to the indicators that fired on the scored series
SegmentsOwed ==
    LET rsi == ReportedStatus("rsi")
        bollinger == ReportedStatus("bollinger_bands")
        ml == frame.ml_result
    IN  {x \in {"Trading volume is above normal"} : frame.volume_result.is_suspicious}
        \cup {x \in {"RSI indicates overbought condition"} :
                 rsi \in {"overbought", "extremely_overbought"}}
        \cup {x \in {"RSI indicates oversold condition"} :
                 rsi \in {"oversold", "extremely_oversold"}}
        \cup {x \in {"Price above Bollinger Band upper limit"} : bollinger = "overbought"}
        \cup {x \in {"Price below Bollinger Band lower limit"} : bollinger = "oversold"}
        \cup {x \in {"ML model detected high-risk pattern"} :
                 ml.ml_available /\ ml.ml_score >= 700}
        \cup {x \in {"ML model detected moderate risk"} :
                 ml.ml_available /\ ml.ml_score >= 500 /\ ml.ml_score < 700}

\* C20: the explanation of calculate_risk_score holds one segment for each
\* indicator that fired (volume suspicious, price suspicious, RSI status
\* overbought or oversold, Bollinger status overbought or oversold, the ML
\* verdict when ML is available) and is the generic message only when none
\* fired: the 'monitor' message if the final score is at least 40, the
\* 'no anomalies' message otherwise.
C20_ExplanationNamesWhatFired ==
    Scored =>
        /\ SegmentsOwed \subseteq Segments
        /\ frame.price_result.is_suspicious
              => Segments \cap {"Price increased abnormally",
                                "Price decreased abnormally"} # {}
        /\ Segments \cap GenericMessages # {}
              => /\ SegmentsOwed = {}
                 /\ ~frame.price_result.is_suspicious
                 /\ result.explanation
                       = IF result.risk_score >= 40
                         THEN <<"Multiple weak signals detected - monitor for further activity">>
                         ELSE <<"No significant anomalies detected - normal trading activity">>

\* the flags raised on one signal, the two raised on a combination of
\* signals, and the flags that speak of the ML model
CombinedFlags ==
    {"CRITICAL: Both volume AND price showing anomalies (classic pump-and-dump pattern)",
     "CRITICAL: ML model AND statistical methods both flagging high risk"}

MlFlags ==
    {"ML MODEL: EXTREME risk detected", "ML MODEL: High risk detected",
     "ML MODEL: Anomaly pattern detected",
     "CRITICAL: ML model AND statistical methods both flagging high risk"}

\* C21: the pump-and-dump flag is in red_flags if and only if the volume
\* result and the price result are both suspicious; the 'ML model AND
\* statistical methods' flag if and only if ML was available for the call,
\* ml_score >= 60 and volume_risk >= 60 or price_risk >= 60; both come after
\* every single-signal flag, and no ML flag appears when ML was unavailable.
C21_CombinedFlags ==
    Scored =>
        LET ml == frame.ml_result
            flags == result.red_flags
        IN  /\ "CRITICAL: Both volume AND price showing anomalies (classic pump-and-dump pattern)"
                    \in RedFlags
                <=> (frame.volume_result.is_suspicious /\ frame.price_result.is_suspicious)
            /\ "CRITICAL: ML model AND statistical methods both flagging high risk"
                    \in RedFlags
                <=> /\ ml.ml_available
                    /\ ml.ml_score >= 600
                    /\ \/ frame.volume_result.risk_score >= 60
                       \/ frame.price_result.risk_score >= 60
            /\ \A i, j \in DOMAIN flags :
                  (flags[i] \in CombinedFlags /\ flags[j] \notin CombinedFlags) => j < i
            /\ ~ml.ml_available => RedFlags \cap MlFlags = {}

\* a call with ML available in which both combined flags follow single ones
C21_Witness ==
    /\ Scored
    /\ frame.ml_result.ml_available
    /\ CombinedFlags \subseteq RedFlags
    /\ Len(result.red_flags) >= 5
    /\ result.red_flags[Len(result.red_flags)] \in CombinedFlags

----------------------------------------------------------------------------
(* Properties of the combined price score *)

\* 100 times the weighted sum of the four sub-scores of the series just
\* analysed: 0.40 z-score, 0.25 Bollinger, 0.20 RSI, 0.15 momentum
WeightedSubScores ==
    40 * PriceAnomalyDetector_detect(stock_data, 30, 20).risk_score
    + 25 * check_bollinger_bands(stock_data).risk_score
    + 20 * check_rsi(stock_data).risk_score
    + 15 * check_momentum(stock_data).risk_score

MultipleIndicatorsReturned ==
    op = "PriceAnomalyDetector.detect_multiple_indicators" /\ outcome = "returned"

\* C22: detect_multiple_indicators sets risk_score to the weighted sum
\* 0.40 z + 0.25 Bollinger + 0.20 RSI + 0.15 momentum truncated to an
\* integer (85, 0, 0, 0 gives 34) and is_suspicious to true exactly when
\* that combined score is at least 60, whatever the base detector's verdict.
C22_CombinedPriceScore ==
    /\ combine_risk_scores(<<85, 0, 0, 0>>) = 34
    /\ MultipleIndicatorsReturned =>
          /\ 100 * result.risk_score <= WeightedSubScores
          /\ WeightedSubScores < 100 * (result.risk_score + 1)
          /\ result.is_suspicious <=> result.risk_score >= 60

\* a weighted sum of 60.5 reported as 60 and suspicious, on a series the
\* base detector does not find suspicious
C22_Witness ==
    /\ MultipleIndicatorsReturned
    /\ WeightedSubScores % 100 >= 50
    /\ result.risk_score = 60
    /\ result.is_suspicious
    /\ ~PriceAnomalyDetector_detect(stock_data, 30, 20).is_suspicious

----------------------------------------------------------------------------
(* Properties of the real-time volume check *)

\* the current last volume is more than double the last volume of a
\* non-empty previous_data; a previous volume of 0 counts as no change
VolumeMoreThanDoubled ==
    /\ ~previous_data.is_none
    /\ Len(previous_data.rows) > 0
    /\ Len(stock_data) > 0
    /\ previous_data.rows[Len(previous_data.rows)].Volume > 0
    /\ stock_data[Len(stock_data)].Volume
          > 2 * previous_data.rows[Len(previous_data.rows)].Volume

\* what detect_realtime is to return after a call that has ended
RealtimeVerdict ==
    LET base == VolumeSpikeDetector_detect(stock_data, 30, 20)
    IN  /\ result.risk_score = IF VolumeMoreThanDoubled
                               THEN Min(base.risk_score + 20, 100)
                               ELSE base.risk_score
        /\ result.is_suspicious = IF VolumeMoreThanDoubled
                                  THEN TRUE
                                  ELSE base.is_suspicious

\* C23: detect_realtime returns detect's verdict unchanged unless the
\* current last volume exceeds the last volume of a non-empty previous_data
\* by more than 100%; then risk_score is min(detect's risk_score + 20, 100)
\* and is_suspicious is true.  A previous volume of 0 counts as no change.
C23_RealtimeBoost ==
    op = "VolumeSpikeDetector.detect_realtime" =>
        /\ outcome = "returned"
        /\ RealtimeVerdict

\* the same for the calls that return
C23_RealtimeBoostWhenReturned ==
    (op = "VolumeSpikeDetector.detect_realtime" /\ outcome = "returned") => RealtimeVerdict

----------------------------------------------------------------------------
(* Properties of the risk scores of the anomaly model *)

\* the band of an anomaly score (hundredths): 1 below -0.5, 2 from -0.5 to 0,
\* 3 from 0 to 0.5, 4 from 0.5 on
Band(a) == IF a < -50 THEN 1 ELSE IF a < 0 THEN 2 ELSE IF a < 50 THEN 3 ELSE 4

\* C24: predict_single on a trained model returns a risk_score in [0, 100]
\* for every anomaly_score: in 80..100 below -0.5, in 60..80 from -0.5 to 0,
\* in 30..60 from 0 to 0.5, in 0..30 from 0.5 on, linear within each band
\* (equal steps of the anomaly score give equal steps of the risk, up to the
\* clamp at 0 and 100).
C24_SingleRiskBands ==
    (op = "predict_single" /\ outcome = "returned") =>
        LET a == result.anomaly_score
            risk == result.risk_score
            below == predict_single_risk(a - 1)
            above == predict_single_risk(a + 1)
        IN  /\ risk >= 0 /\ risk <= 1000
            /\ Band(a) = 1 => (risk >= 800 /\ risk <= 1000)
            /\ Band(a) = 2 => (risk >= 600 /\ risk <= 800)
            /\ Band(a) = 3 => (risk >= 300 /\ risk <= 600)
            /\ Band(a) = 4 => (risk >= 0 /\ risk <= 300)
            /\ (Band(a - 1) = Band(a) /\ Band(a + 1) = Band(a)
                  /\ below \notin {0, 1000} /\ above \notin {0, 1000})
                 => below - risk = risk - above

\* an anomaly score of -0.75, in the middle of the highest band
C24_Witness ==
    /\ op = "predict_single"
    /\ outcome = "returned"
    /\ result.anomaly_score = -75
    /\ result.risk_score = 900

BatchPredicted == op = "IsolationForestDetector.predict" /\ outcome = "returned"

\* the risk of row i of the result is at least q
RiskGe(i, q) == result[i].risk_score[1] >= q * result[i].risk_score[2]

RiskLe(i, q) == result[i].risk_score[1] <= q * result[i].risk_score[2]

\* C25: in batch predict, risk_score is the inverted min-max normalisation
\* of anomaly_score over the batch: the rows of lowest anomaly_score get 100,
\* those of highest get 0, risk never increases with anomaly_score and is
\* within [0, 100]; when every anomaly score of the batch is the same (a
\* batch of one row included) every row gets 50.
C25_BatchRiskNormalised ==
    BatchPredicted =>
        LET scores == {result[i].anomaly_score : i \in DOMAIN result}
        IN  /\ \A i \in DOMAIN result :
                  /\ result[i].risk_score[2] > 0
                  /\ RiskGe(i, 0) /\ RiskLe(i, 100)
            /\ Cardinality(scores) = 1 =>
                  \A i \in DOMAIN result : RiskGe(i, 50) /\ RiskLe(i, 50)
            /\ Cardinality(scores) > 1 =>
                  \A i \in DOMAIN result :
                     /\ (\A x \in scores : result[i].anomaly_score <= x) => RiskGe(i, 100)
                     /\ (\A x \in scores : result[i].anomaly_score >= x) => RiskLe(i, 0)
                     /\ \A j \in DOMAIN result :
                           result[i].anomaly_score <= result[j].anomaly_score
                             => result[i].risk_score[1] * result[j].risk_score[2]
                                  >= result[j].risk_score[1] * result[i].risk_score[2]

\* a batch of three rows with three different anomaly scores, the first row
\* strictly between the other two
C25_Witness ==
    /\ BatchPredicted
    /\ Len(result) = 3
    /\ result[2].anomaly_score < result[1].anomaly_score
    /\ result[1].anomaly_score < result[3].anomaly_score
    /\ ~RiskLe(1, 0) /\ ~RiskGe(1, 100)

----------------------------------------------------------------------------
(* Properties of the pipeline *)

PipelineRan == op = "BasePipeline.run"

\* the stages run should call, given what each stage does
StagesDue ==
    IF args.extract.raises \/ args.extract.returns = <<>>
    THEN <<"extract">>
    ELSE IF args.transform.raises \/ args.transform.returns = <<>>
         THEN <<"extract", "transform">>
         ELSE <<"extract", "transform", "load">>

LoadReturnedTrue ==
    /\ Len(StagesDue) = 3
    /\ ~args.load.raises
    /\ args.load.returns = TRUE

\* C26: BasePipeline.run calls extract, transform, load in that order, skips
\* the later stages when extract or transform returns no records, never
\* propagates an exception of a stage, and always returns metrics with
\* end_time and the duration set; success is true exactly when load returned
\* True; with success records_loaded = records_transformed and errors is
\* empty, in every other outcome records_loaded is 0 and errors is not empty.
C26_RunNeverRaisesAndAccounts ==
    PipelineRan =>
        LET metrics == result.metrics
        IN  /\ outcome = "returned"
            /\ result.called = StagesDue
            /\ "end_time" \in DOMAIN metrics
            /\ metrics.end_time = isoformat(args.end_time)
            /\ metrics.duration_seconds = round2(args.end_time - args.start_time)
            /\ metrics.success = TRUE <=> LoadReturnedTrue
            /\ metrics.success = TRUE =>
                  /\ metrics.records_loaded = metrics.records_transformed
                  /\ metrics.errors = <<>>
            /\ metrics.success # TRUE =>
                  /\ metrics.records_loaded = 0
                  /\ metrics.errors # <<>>

\* a run whose load stage returned False after a transform that kept fewer
\* records than were extracted, and that took measurable time
C26_Witness ==
    /\ PipelineRan
    /\ result.called = <<"extract", "transform", "load">>
    /\ ~args.load.raises /\ ~args.load.returns
    /\ result.metrics.records_transformed < result.metrics.records_extracted
    /\ result.metrics.records_transformed > 0
    /\ result.metrics.duration_seconds > 0
    /\ result.metrics.errors = <<"Load stage failed">>

----------------------------------------------------------------------------
(* Properties of the ceiling of the final score *)

\* C27: the final risk_score of calculate_risk_score is never above 89,
\* whatever the weights in use, and never above 84 for a scorer constructed
\* without a model; 100 is never returned.
C27_FinalScoreCeiling ==
    Scored =>
        /\ result.risk_score <= 89
        /\ result.risk_score # 100
        /\ ~scorer.ml_enabled => result.risk_score <= 84

\* the ceiling is met with the model available: volume 100, price 98 and an
\* ML score of 100 give 89
C27_Witness ==
    /\ Scored
    /\ frame.volume_result.risk_score = 100
    /\ frame.price_result.risk_score = 98
    /\ frame.ml_result.ml_available
    /\ frame.ml_result.ml_score = 1000
    /\ result.risk_score = 89

----------------------------------------------------------------------------
(* Properties of scoring without the model *)

\* a scorer constructed where the ML modules do not import
ScorerWithoutModel ==
    RiskScorer_init(CHOOSE env \in ModelEnvs : ~env.ML_AVAILABLE, "None", TRUE)

\* the loaded model of the scorer failed in this call
ModelFailedInCall ==
    /\ Scored
    /\ scorer.ml_enabled
    /\ ~frame.ml_result.ml_available

\* C28: when ML is unavailable the final score does not depend on why: for
\* the same series, a scorer whose loaded model fails at prediction returns
\* the risk_score, risk_level and is_suspicious that a scorer constructed
\* without a usable model returns.
C28_SameScoreWhateverTheReason ==
    ModelFailedInCall =>
        LET other == calculate_risk_score(ScorerWithoutModel, stock_data, "TICKER",
                                          args.mlenv).value
        IN  /\ ~ScorerWithoutModel.ml_enabled
            /\ other.risk_score = result.risk_score
            /\ other.risk_level = result.risk_level
            /\ other.is_suspicious = result.is_suspicious

----------------------------------------------------------------------------
(* Properties relating the verdict and the red flags *)

\* C29: every assessment calculate_risk_score returns with is_suspicious true
\* (a final score of 60 or more) has at least one red flag, whether ML is
\* available, absent since construction, or failing in the call, and
\* whatever the sub-scores of the detectors.
C29_SuspiciousHasRedFlags ==
    Scored =>
        /\ result.is_suspicious <=> result.risk_score >= 60
        /\ result.is_suspicious => result.red_flags # <<>>

\* a suspicious assessment that owes its only flag to the volume score: no
\* sub-score reaches 80, the price score is below 60 and ML is unavailable
C29_Witness ==
    /\ Scored
    /\ result.is_suspicious
    /\ ~frame.ml_result.ml_available
    /\ frame.volume_result.risk_score < 80
    /\ frame.price_result.risk_score < 60
    /\ Len(result.red_flags) = 1

----------------------------------------------------------------------------
(* Properties of the indicators without the z-score *)

\* the base z-score detection of the series just analysed failed softly:
\* fewer rows than the window, or a zero or undefined rolling std
BaseSoftFailed ==
    /\ MultipleIndicatorsReturned
    /\ Len(stock_data) < 30 \/ ReturnStdZeroOrUndefined

\* 100 times what Bollinger, RSI and momentum add to the combined score
IndicatorContribution ==
    25 * check_bollinger_bands(stock_data).risk_score
    + 20 * check_rsi(stock_data).risk_score
    + 15 * check_momentum(stock_data).risk_score

\* C30: detect_multiple_indicators never reports is_suspicious true when the
\* base z-score detection failed softly: Bollinger, RSI and momentum together
\* contribute at most 58 to the combined score, below the threshold of 60.
C30_IndicatorsAloneNeverSuspicious ==
    BaseSoftFailed =>
        /\ PriceAnomalyDetector_detect(stock_data, 30, 20).risk_score = 0
        /\ IndicatorContribution <= 5800
        /\ 100 * result.risk_score <= IndicatorContribution
        /\ result.risk_score <= 58
        /\ ~result.is_suspicious

\* the three indicators at their highest on a series whose z-score detection
\* failed softly: 100, 90 and 100 give 58
C30_Witness ==
    /\ BaseSoftFailed
    /\ check_bollinger_bands(stock_data).risk_score = 100
    /\ check_rsi(stock_data).risk_score = 90
    /\ check_momentum(stock_data).risk_score = 100
    /\ result.risk_score = 58

====
